---- MODULE Spec2Model ----
(***************************************************************************)
(* Model of fury.animation.timeline.Timeline: the playback clock           *)
(* (play / pause / stop / seek / speed / loop), the time-windowed          *)
(* scene-membership scheduling and the tree-shaped update propagation.     *)
(*                                                                         *)
(* Time.  Animation timestamps are integers.  Wall-clock values            *)
(* (time.perf_counter() and _last_started_time) are kept in units of       *)
(* 1/Scale second, where every modelled speed divides Scale, so that       *)
(* `timestamp / speed` and `(now - started) * speed` are exact.            *)
(***************************************************************************)
EXTENDS Integers, Sequences, FiniteSets, TLC

\* ---- bounds of the model ----
MaxSpeed == 2
MaxKey == 2
MaxNow == 2
MaxT == 6
MaxMembers == 3
RecursionLimit == 8

Speeds == 1..MaxSpeed
Scale == CHOOSE n \in 1..(MaxSpeed * MaxSpeed * MaxSpeed) :
            /\ \A s \in Speeds : n % s = 0
            /\ \A m \in 1..(n - 1) : \E s \in Speeds : m % s # 0

Root == 1
Child == 2
Timelines == {Root, Child}

None == <<>>
Some(v) == <<v>>

Max(a, b) == IF a > b THEN a ELSE b

EmptyDict == [x \in {} |-> 0]

\* The greatest and the least element of a non-empty finite set of integers.
MaxOf(S) == CHOOSE x \in S : \A y \in S : y <= x
MinOf(S) == CHOOSE x \in S : \A y \in S : x <= y

\* Interpolator.get_neighbour_timestamps: the timestamps of the keyframes
\* that bracket t, t0 <= t <= t1, both the first (the last) timestamp when t
\* is before (after) every keyframe.
get_neighbour_timestamps(keyframes, t) ==
  LET keys == DOMAIN keyframes
      before == {x \in keys : x <= t}
      after == {x \in keys : x >= t}
  IN IF before = {} THEN <<MinOf(keys), MinOf(keys)>>
     ELSE IF after = {} THEN <<MaxOf(keys), MaxOf(keys)>>
     ELSE <<MaxOf(before), MinOf(after)>>

\* The pairs of timestamps that bracket t, t0 <= t <= t1, with no keyframe
\* strictly between them: at the time of a keyframe the pair may end at it,
\* start at it, or be that keyframe twice; outside the keyframes it is the
\* first (the last) keyframe twice.
NeighbourTimestamps(keyframes, t) ==
  LET keys == DOMAIN keyframes IN
  IF \A x \in keys : t < x THEN {<<MinOf(keys), MinOf(keys)>>}
  ELSE IF \A x \in keys : x < t THEN {<<MaxOf(keys), MaxOf(keys)>>}
  ELSE { p \in keys \X keys :
           /\ p[1] <= t /\ t <= p[2]
           /\ ~ \E x \in keys : p[1] < x /\ x < p[2] }

\* Interpolator.get_time_tau: the fraction <<a, b>> = a / b of the way from
\* t0 to t1 at which t lies, clamped to [0, 1]; 0 when t0 = t1.
get_time_tau(t, t0, t1) ==
  IF t0 = t1 THEN <<0, 1>>
  ELSE <<MinOf({MaxOf({t - t0, 0}), t1 - t0}), t1 - t0>>

\* numpy arithmetic on arrays: k * v, u + v, np.zeros_like(v).
VScale(k, v) == [n \in 1..Len(v) |-> k * v[n]]
VAdd(u, v) == [n \in 1..Len(u) |-> u[n] + v[n]]
zeros_like(v) == [n \in 1..Len(v) |-> 0]

\* Order of the camera / object attributes inside update_animation.
CameraAttribs == <<"rotation", "position", "focal", "view_up">>
ObjectAttribs == <<"position", "scale", "opacity", "rotation", "color">>

VARIABLES T, now, ev, lastOp, scn, cubic
vars == <<T, now, ev, lastOp, scn, cubic>>

\* Timeline.__init__
NewTimeline(playback_panel, length) ==
  [ playback_panel |-> playback_panel,
    last_timestamp |-> 0,
    speed |-> 1,
    timelines |-> <<>>,
    items |-> <<>>,
    static_actors |-> IF playback_panel THEN <<"playback_panel">> ELSE <<>>,
    camera |-> FALSE,
    scene |-> FALSE,
    last_started_time |-> 0,
    playing |-> FALSE,
    length |-> length,
    final_timestamp |-> 0,
    loop |-> FALSE,
    added_to_scene |-> TRUE,
    add_to_scene_time |-> 0,
    remove_from_scene_time |-> None,
    is_camera_animated |-> FALSE,
    keyframes |-> [attribs |-> EmptyDict, camera |-> EmptyDict],
    interpolators |-> [attribs |-> EmptyDict, camera |-> EmptyDict] ]

\* A world is the heap of Timelines, the events emitted by the running
\* call, and whether an exception is propagating.
World(tls, events, err) ==
  [T |-> tls, ev |-> events, err |-> err, depth |-> 0]

\* A call of a method that may call itself, directly or through the
\* Timelines below: entering it puts a frame on the interpreter's stack and
\* leaving it takes the frame off; a call that would exceed the recursion
\* limit raises RecursionError instead.
Enter(w) == [w EXCEPT !.depth = @ + 1]
Leave(w, r) == [r EXCEPT !.depth = w.depth]

Emit(w, e) == [w EXCEPT !.ev = Append(@, e)]
Raise(w, what) == [Emit(w, [k |-> "raise", what |-> what]) EXCEPT !.err = TRUE]

\* Timeline.current_timestamp (getter): the value it returns.
Clock(tl) ==
  IF tl.playing
    THEN ((now - tl.last_started_time) * tl.speed) \div Scale
    ELSE tl.last_timestamp

\* Timeline.current_timestamp (getter): its write to _last_timestamp.
ReadClock(w, i) == [w EXCEPT !.T[i].last_timestamp = Clock(w.T[i])]

\* A start reference derived without dividing by the speed.
StartRef_nospeed(timestamp, speed) == now - timestamp * Scale

\* time.perf_counter() - timestamp / self.speed
StartRef(timestamp, speed) == now - (timestamp * Scale) \div speed

\* Timeline.is_inside_scene_at
is_inside_scene_at(tl, timestamp) ==
  IF tl.remove_from_scene_time # None /\ timestamp >= tl.remove_from_scene_time[1]
    THEN FALSE
    ELSE timestamp >= tl.add_to_scene_time

\* An is_interpolatable that ignores is_camera and looks in both namespaces.
is_interpolatable_anyns(tl, attrib, is_camera) ==
  attrib \in DOMAIN tl.interpolators.attribs \cup DOMAIN tl.interpolators.camera

\* Timeline.is_interpolatable
is_interpolatable(tl, attrib, is_camera) ==
  attrib \in DOMAIN tl.interpolators[IF is_camera THEN "camera" ELSE "attribs"]

\* A level-triggered handle_scene_event: the hook is invoked whatever
\* _added_to_scene is.
handle_scene_event_level(w, i, in_scene) ==
  IF w.T[i].scene
    THEN IF in_scene
           THEN [Emit(w, [k |-> "add", tl |-> i])
                   EXCEPT !.T[i].added_to_scene = TRUE]
           ELSE [Emit(w, [k |-> "remove", tl |-> i])
                   EXCEPT !.T[i].added_to_scene = FALSE]
    ELSE w

\* Timeline.handle_scene_event
handle_scene_event(w, i, in_scene) ==
  LET tl == w.T[i] IN
  IF tl.scene
    THEN IF in_scene /\ ~tl.added_to_scene
           THEN [Emit(w, [k |-> "add", tl |-> i])
                   EXCEPT !.T[i].added_to_scene = TRUE]
           ELSE IF ~in_scene /\ tl.added_to_scene
                  THEN [Emit(w, [k |-> "remove", tl |-> i])
                          EXCEPT !.T[i].added_to_scene = FALSE]
                  ELSE w
    ELSE w

RECURSIVE update_final_timestamp(_, _)
RECURSIVE ChildrenFinal(_, _, _, _)

\* The list comprehension of update_final_timestamp: every child is updated
\* in order; acc is the running maximum of the values the calls return.
ChildrenFinal(w, kids, n, acc) ==
  IF n > Len(kids) \/ w.err
    THEN [w |-> w, max |-> acc]
    ELSE LET w1 == update_final_timestamp(w, kids[n])
         IN ChildrenFinal(w1, kids, n + 1,
                          Max(acc, w1.T[kids[n]].final_timestamp))

\* Timeline.update_final_timestamp
update_final_timestamp(w, i) ==
  IF w.depth >= RecursionLimit THEN Raise(w, "RecursionError") ELSE
  LET tl == w.T[i]
      w1 == IF tl.length = None
              THEN LET r == ChildrenFinal(Enter(w), tl.timelines, 1, 0)
                   IN IF r.w.err
                        THEN r.w
                        ELSE [r.w EXCEPT !.T[i].final_timestamp =
                                           Max(tl.final_timestamp, r.max)]
              ELSE [w EXCEPT !.T[i].final_timestamp = tl.length[1]]
  IN Leave(w, IF tl.playback_panel /\ ~w1.err
                THEN Emit(w1, [k |-> "panel_final_time", tl |-> i,
                               t |-> w1.T[i].final_timestamp])
                ELSE w1)

\* A pause that does not read the clock.
pause_noread(w, i) == [w EXCEPT !.T[i].playing = FALSE]

\* Timeline.pause
pause(w, i) == [ReadClock(w, i) EXCEPT !.T[i].playing = FALSE]

\* PlaybackPanel.pause: pauses the panel and calls its on_pause callback,
\* which Timeline.__init__ binds to Timeline.pause.
PlaybackPanel_pause(w, i) == pause(Emit(w, [k |-> "panel_pause", tl |-> i]), i)

\* self.playback_panel.pause() inside update_animation: playback_panel is
\* None for a Timeline constructed without a panel.
CallPanelPause(w, i) ==
  IF w.T[i].playback_panel
    THEN PlaybackPanel_pause(w, i)
    ELSE Raise(w, "AttributeError")

\* Timeline.get_rotation: Rotation.from_quat accepts the value interpolated
\* from the keyframes around t only if it has 4 components.
IsQuaternionAt(tl, t) ==
  LET keyframes == tl.keyframes.attribs.rotation
      nb == get_neighbour_timestamps(keyframes, t)
  IN Len(keyframes[nb[1]].value) = 4 /\ Len(keyframes[nb[2]].value) = 4

RECURSIVE update_animation(_, _, _, _, _)
RECURSIVE seek(_, _, _)
RECURSIVE UpdateChildren(_, _, _, _, _)
RECURSIVE ApplyAttribs(_, _, _, _, _, _)

\* The applications of the interpolatable attributes of one namespace, in
\* the order update_animation goes through them.
ApplyAttribs(w, i, t, is_camera, attribs, n) ==
  IF n > Len(attribs) \/ w.err
    THEN w
    ELSE LET a == attribs[n]
             ns == IF is_camera THEN "camera" ELSE "attribs"
             w1 == IF is_interpolatable(w.T[i], a, is_camera)
                     THEN IF ~is_camera /\ a = "rotation"
                               /\ ~IsQuaternionAt(w.T[i], t)
                            THEN Raise(w, "ValueError")
                            ELSE Emit(w, [k |-> "apply", tl |-> i, ns |-> ns,
                                          attrib |-> a, t |-> Some(t)])
                     ELSE IF is_camera /\ a = "view_up"
                            THEN Emit(w, [k |-> "apply", tl |-> i, ns |-> ns,
                                          attrib |-> a, t |-> None])
                            ELSE w
         IN ApplyAttribs(w1, i, t, is_camera, attribs, n + 1)

\* [tl.update_animation(t, force=True, _in_scene=in_scene) for tl in timelines]
UpdateChildren(w, kids, n, t, in_scene) ==
  IF n > Len(kids) \/ w.err
    THEN w
    ELSE UpdateChildren(update_animation(w, kids[n], Some(t), TRUE, Some(in_scene)),
                        kids, n + 1, t, in_scene)

\* An overrun handling that wraps a looping Timeline by the overshoot.
UpdateOverrun_overshoot(w, i) ==
  LET w1 == ReadClock(w, i)
      tl == w1.T[i]
  IN IF tl.last_timestamp > tl.final_timestamp
       THEN IF tl.loop
              THEN seek(w1, i, tl.last_timestamp - tl.final_timestamp)
              ELSE LET w2 == seek(w1, i, tl.final_timestamp)
                   IN IF w2.err THEN w2 ELSE CallPanelPause(w2, i)
       ELSE w1

\* update_animation, lines 1037-1045: reading the clock and handling the
\* overrun of the final timestamp.
UpdateOverrun(w, i) ==
  LET w1 == ReadClock(w, i)
      tl == w1.T[i]
  IN IF tl.last_timestamp > tl.final_timestamp
       THEN IF tl.loop
              THEN seek(w1, i, 0)
              ELSE LET w2 == seek(w1, i, tl.final_timestamp)
                   IN IF w2.err THEN w2 ELSE CallPanelPause(w2, i)
       ELSE w1

\* update_animation, lines 1046-1048: refreshing the playback panel.
UpdatePanel(w, i, t, force) ==
  IF w.T[i].playback_panel /\ (w.T[i].playing \/ force)
    THEN LET w1 == update_final_timestamp(w, i)
         IN IF w1.err
              THEN w1
              ELSE Emit(w1, [k |-> "panel_current_time", tl |-> i, t |-> t])
    ELSE w

\* A pass that updates the children before it applies the object attributes.
UpdateActors_childrenfirst(w, i, t, in_scene) ==
  LET w1 == UpdateChildren(w, w.T[i].timelines, 1, t, in_scene)
  IN IF in_scene /\ ~w1.err
       THEN ApplyAttribs(w1, i, t, FALSE, ObjectAttribs, 1)
       ELSE w1

\* update_animation, lines 1093-1120: object attributes, then the children.
UpdateActors(w, i, t, in_scene) ==
  LET w1 == IF in_scene
              THEN ApplyAttribs(w, i, t, FALSE, ObjectAttribs, 1)
              ELSE w
  IN UpdateChildren(w1, w1.T[i].timelines, 1, t, in_scene)

\* update_animation, lines 1056-1120.  An "update" event marks the start of
\* a pass over the attributes and records the t the pass evaluates them at.
UpdateApply(w, i, t, in_scene) ==
  LET tl == w.T[i]
      w1 == Emit(w, [k |-> "update", tl |-> i, t |-> t])
  IN
  IF tl.camera
    THEN UpdateActors(ApplyAttribs(w1, i, t, TRUE, CameraAttribs, 1),
                      i, t, in_scene)
    ELSE IF tl.is_camera_animated /\ tl.scene
           THEN update_animation([w EXCEPT !.T[i].camera = TRUE],
                                 i, None, TRUE, None)
           ELSE UpdateActors(w1, i, t, in_scene)

\* An update_animation whose pass over the attributes and the children does
\* not depend on playing or force.
update_animation_always(w, i, t, force, in_scene_arg) ==
  IF w.depth >= RecursionLimit THEN Raise(w, "RecursionError") ELSE
  LET tv == IF t = None THEN Clock(w.T[i]) ELSE t[1]
      w1 == IF t = None THEN UpdateOverrun(Enter(w), i) ELSE Enter(w)
  IN IF w1.err THEN Leave(w, w1) ELSE
     LET w2 == UpdatePanel(w1, i, tv, force)
         inside == is_inside_scene_at(w2.T[i], tv)
         in_scene == IF in_scene_arg # None
                       THEN in_scene_arg[1] /\ inside
                       ELSE inside
         w3 == handle_scene_event(w2, i, in_scene)
     IN Leave(w, IF w2.err THEN w2 ELSE UpdateApply(w3, i, tv, in_scene))

\* Timeline.update_animation(t=None, force=False, _in_scene=None)
update_animation(w, i, t, force, in_scene_arg) ==
  IF w.depth >= RecursionLimit THEN Raise(w, "RecursionError") ELSE
  LET tv == IF t = None THEN Clock(w.T[i]) ELSE t[1]
      w1 == IF t = None THEN UpdateOverrun(Enter(w), i) ELSE Enter(w)
  IN IF w1.err THEN Leave(w, w1) ELSE
     LET w2 == UpdatePanel(w1, i, tv, force)
         inside == is_inside_scene_at(w2.T[i], tv)
         in_scene == IF in_scene_arg # None
                       THEN in_scene_arg[1] /\ inside
                       ELSE inside
         w3 == handle_scene_event(w2, i, in_scene)
     IN Leave(w, IF w2.err
                   THEN w2
                   ELSE IF w3.T[i].playing \/ force
                          THEN UpdateApply(w3, i, tv, in_scene)
                          ELSE w3)

\* A seek that does not clamp.
seek_noclamp(w, i, timestamp) ==
  IF w.T[i].playing
    THEN [w EXCEPT !.T[i].last_started_time = StartRef(timestamp, w.T[i].speed)]
    ELSE update_animation([w EXCEPT !.T[i].last_timestamp = timestamp],
                          i, None, TRUE, None)

\* Timeline.seek
seek(w, i, timestamp) ==
  LET tl == w.T[i]
      ts == IF timestamp < 0
              THEN 0
              ELSE IF timestamp > tl.final_timestamp
                     THEN tl.final_timestamp
                     ELSE timestamp
  IN IF tl.playing
       THEN [w EXCEPT !.T[i].last_started_time = StartRef(ts, tl.speed)]
       ELSE update_animation([w EXCEPT !.T[i].last_timestamp = ts],
                             i, None, TRUE, None)

\* Timeline.seek_percent: t = percent * self._final_timestamp / 100
\* (the percentages used make the quotient exact).
seek_percent(w, i, percent) ==
  seek(w, i, (percent * w.T[i].final_timestamp) \div 100)

\* Timeline.playing, Timeline.stopped, Timeline.paused (properties):
\*   return self._playing
\*   return not self.playing and not self._last_timestamp
\*   return not self.playing and self._last_timestamp is not None
\* (_last_timestamp is a number from construction on, never None).
playing(tl) == tl.playing
stopped(tl) == ~playing(tl) /\ tl.last_timestamp = 0
paused(tl) == ~playing(tl) /\ tl.last_timestamp \in Int

\* A play that starts the clock again whether or not it is running.
play_again(w, i) ==
  LET w1 == IF Clock(w.T[i]) >= w.T[i].final_timestamp
              THEN seek(w, i, 0)
              ELSE w
  IN IF w1.err THEN w1 ELSE
     LET w2 == update_final_timestamp(w1, i)
     IN [w2 EXCEPT !.T[i].last_started_time =
                      StartRef(w2.T[i].last_timestamp, w2.T[i].speed),
                   !.T[i].playing = TRUE]

\* Timeline.play
play(w, i) ==
  IF w.T[i].playing
    THEN w
    ELSE LET w1 == IF Clock(w.T[i]) >= w.T[i].final_timestamp
                     THEN seek(w, i, 0)
                     ELSE w
         IN IF w1.err THEN w1 ELSE
            LET w2 == update_final_timestamp(w1, i)
            IN [w2 EXCEPT !.T[i].last_started_time =
                             StartRef(w2.T[i].last_timestamp, w2.T[i].speed),
                          !.T[i].playing = TRUE]

\* Timeline.stop
stop(w, i) ==
  update_animation([w EXCEPT !.T[i].last_timestamp = 0,
                             !.T[i].playing = FALSE],
                   i, None, TRUE, None)

\* Timeline.restart
restart(w, i) ==
  update_animation([w EXCEPT !.T[i].last_timestamp = 0,
                             !.T[i].playing = TRUE],
                   i, None, TRUE, None)

\* A speed setter that clamps a non-positive speed to 1.
set_speed_clamp(w, i, speed) ==
  LET w1 == ReadClock(w, i)
      current == w1.T[i].last_timestamp
  IN seek([w1 EXCEPT !.T[i].speed = IF speed <= 0 THEN 1 ELSE speed,
                     !.T[i].last_started_time = now],
          i, current)

\* Timeline.speed (setter)
set_speed(w, i, speed) ==
  LET w1 == ReadClock(w, i)
      current == w1.T[i].last_timestamp
  IN IF speed <= 0
       THEN w1
       ELSE seek([w1 EXCEPT !.T[i].speed = speed,
                            !.T[i].last_started_time = now],
                 i, current)

\* Timeline.set_timestamp
set_timestamp(w, i, timestamp) ==
  IF w.T[i].playing
    THEN [w EXCEPT !.T[i].last_started_time = StartRef(timestamp, w.T[i].speed)]
    ELSE [w EXCEPT !.T[i].last_timestamp = timestamp]

DictSet(d, key, val) ==
  [x \in DOMAIN d \cup {key} |-> IF x = key THEN val ELSE d[x]]

\* An interpolator object: its class, the keyframe dict it was constructed
\* on (held by reference: the namespace and the attribute of the channel),
\* the spline degree, if one was passed, and the timestamps its last setup
\* found in the dict (none before the first setup).
Interpolator(cls, typ, attrib, degree) ==
  [cls |-> cls, keyframes |-> <<typ, attrib>>, degree |-> degree,
   timestamps |-> {}]

\* Interpolator.setup: the interpolator reads the timestamps of its dict
\* anew; the constructor of an interpolator ends with it.
Interpolator_setup(interpolator, keyframes) ==
  [interpolator EXCEPT !.timestamps = DOMAIN keyframes]

\* A namespace choice that files every attribute under the object attributes.
Namespace_attribs(is_camera) == "attribs"

\* typ = 'attribs'; if is_camera: typ = 'camera'
Namespace(is_camera) == IF is_camera THEN "camera" ELSE "attribs"

\* An interpolator a channel would get that holds the value of the keyframe
\* before t.
DefaultInterpolator_step(typ, attrib) ==
  Interpolator("StepInterpolator", typ, attrib, None)

\* The interpolator set_keyframe gives to a channel that has none:
\* LinearInterpolator(attrib_keyframes).
DefaultInterpolator(typ, attrib) ==
  Interpolator("LinearInterpolator", typ, attrib, None)

\* A binding that leaves an interpolator the channel already has as it is.
BindInterpolator_nosetup(interpolators, typ, attrib, attrib_keyframes) ==
  IF attrib \in DOMAIN interpolators
    THEN interpolators
    ELSE DictSet(interpolators, attrib,
                 Interpolator_setup(DefaultInterpolator(typ, attrib),
                                    attrib_keyframes))

\* set_keyframe, lines 176-183: a channel without interpolator gets the
\* default one, constructed on its keyframes; the interpolator of a channel
\* that has one is kept and its setup() is called.
BindInterpolator(interpolators, typ, attrib, attrib_keyframes) ==
  IF attrib \in DOMAIN interpolators
    THEN DictSet(interpolators, attrib,
                 Interpolator_setup(interpolators[attrib], attrib_keyframes))
    ELSE DictSet(interpolators, attrib,
                 Interpolator_setup(DefaultInterpolator(typ, attrib),
                                    attrib_keyframes))

\* Timeline.set_keyframe (motion_path_res = 0: update_motion_path draws
\* nothing and changes no state).
set_keyframe(w, i, attrib, timestamp, value, is_camera) ==
  LET typ == Namespace(is_camera)
      tl == w.T[i]
      old == IF attrib \in DOMAIN tl.keyframes[typ]
               THEN tl.keyframes[typ][attrib]
               ELSE EmptyDict
      kf == DictSet(old, timestamp,
                    [value |-> value, pre_cp |-> None, post_cp |-> None])
      w1 == [w EXCEPT
               !.T[i].is_camera_animated = IF is_camera THEN TRUE ELSE @,
               !.T[i].keyframes[typ] = DictSet(@, attrib, kf),
               !.T[i].interpolators[typ] = BindInterpolator(@, typ, attrib, kf)]
      w2 == IF timestamp > tl.final_timestamp
              THEN LET w1a == [w1 EXCEPT !.T[i].final_timestamp = timestamp]
                   IN IF tl.playback_panel
                        THEN LET w1b == update_final_timestamp(w1a, i)
                             IN IF w1b.err
                                  THEN w1b
                                  ELSE Emit(w1b, [k |-> "panel_final_time",
                                                  tl |-> i,
                                                  t |-> w1b.T[i].final_timestamp])
                        ELSE w1a
              ELSE w1
  IN IF timestamp > 0 /\ ~w2.err
       THEN update_animation(w2, i, None, TRUE, None)
       ELSE w2

\* The Hamilton product p * q of two quaternions (x, y, z, w).
QMul(p, q) ==
  << p[4] * q[1] + p[1] * q[4] + p[2] * q[3] - p[3] * q[2],
     p[4] * q[2] - p[1] * q[3] + p[2] * q[4] + p[3] * q[1],
     p[4] * q[3] + p[1] * q[2] - p[2] * q[1] + p[3] * q[4],
     p[4] * q[4] - p[1] * q[1] - p[2] * q[2] - p[3] * q[3] >>

\* The quaternion of a rotation about a coordinate axis (1 = x, 2 = y,
\* 3 = z) by a multiple of 180 degrees: the sine and the cosine of the half
\* angle are then 0, 1 or -1.
AxisQuat(axis, degrees) ==
  LET q == (degrees \div 180) % 4
      c == CASE q = 0 -> 1 [] q = 2 -> -1 [] OTHER -> 0
      sn == CASE q = 1 -> 1 [] q = 3 -> -1 [] OTHER -> 0
  IN [n \in 1..4 |-> IF n = axis THEN sn ELSE IF n = 4 THEN c ELSE 0]

\* Rotation.from_euler('zxy', rotation[[2, 0, 1]], degrees=True).as_quat():
\* extrinsic rotations about z, then x, then y.
from_euler_zxy(rotation) ==
  QMul(AxisQuat(2, rotation[2]),
       QMul(AxisQuat(1, rotation[1]), AxisQuat(3, rotation[3])))

\* Rotation.from_rotvec(vector).as_euler('xyz', True), for a rotation vector
\* of angle 0 or pi about the x axis, given in units of pi.
rotvec_as_euler_xyz(vector) == [n \in 1..3 |-> 180 * vector[n]]

\* A set_rotation that converts 3 components and stores anything else.
set_rotation_storeall(w, i, timestamp, rotation) ==
  set_keyframe(w, i, "rotation", timestamp,
               IF Len(rotation) = 3 THEN from_euler_zxy(rotation) ELSE rotation,
               FALSE)

\* Timeline.set_rotation
set_rotation(w, i, timestamp, rotation) ==
  LET no_components == Len(rotation) IN
  IF no_components = 4
    THEN set_keyframe(w, i, "rotation", timestamp, rotation, FALSE)
    ELSE IF no_components = 3
           THEN set_keyframe(w, i, "rotation", timestamp,
                             from_euler_zxy(rotation), FALSE)
           ELSE Emit(w, [k |-> "warn", tl |-> i])

\* Timeline.set_rotation_as_vector
set_rotation_as_vector(w, i, timestamp, vector) ==
  set_keyframe(w, i, "rotation", timestamp, rotvec_as_euler_xyz(vector), FALSE)

RECURSIVE add_to_scene(_, _)
RECURSIVE AddChildrenToScene(_, _, _)
RECURSIVE AddStatic(_, _, _, _)

\* [ren.add(static_act) for static_act in self._static_actors]
AddStatic(w, i, acts, n) ==
  IF n > Len(acts)
    THEN w
    ELSE AddStatic(Emit(w, [k |-> "add_static", tl |-> i, actor |-> acts[n]]),
                   i, acts, n + 1)

\* [ren.add(timeline) for timeline in self.timelines]: Scene.add hands a
\* Container to its add_to_scene.
AddChildrenToScene(w, kids, n) ==
  IF n > Len(kids) \/ w.err
    THEN w
    ELSE AddChildrenToScene(add_to_scene(w, kids[n]), kids, n + 1)

\* Timeline.add_to_scene
add_to_scene(w, i) ==
  LET w0 == Emit(w, [k |-> "add", tl |-> i])
      w1 == AddStatic(w0, i, w0.T[i].static_actors, 1)
      w2 == AddChildrenToScene(w1, w1.T[i].timelines, 1)
  IN IF w2.err THEN w2 ELSE
     update_animation([w2 EXCEPT !.T[i].scene = TRUE,
                                 !.T[i].added_to_scene = TRUE],
                      i, None, TRUE, None)

\* Timeline.add_timeline
add_timeline(w, i, c) == [w EXCEPT !.T[i].timelines = Append(@, c)]

\* Timeline.remove_timelines
remove_timelines(w, i) == [w EXCEPT !.T[i].timelines = <<>>]

\* What can be handed to add and add_actor: an actor (fury.lib.Actor), a
\* Timeline, an object of another type, or a Python list of those.
AnActor(id) == [type |-> "Actor", id |-> id, tl |-> 0, elems |-> <<>>]
ATimeline(tl) == [type |-> "Timeline", id |-> "", tl |-> tl, elems |-> <<>>]
AnObject(id) == [type |-> "object", id |-> id, tl |-> 0, elems |-> <<>>]
AList(elems) == [type |-> "list", id |-> "", tl |-> 0, elems |-> elems]

RECURSIVE add_actor(_, _, _, _)
RECURSIVE AddActors(_, _, _, _, _)
RECURSIVE add(_, _, _)
RECURSIVE AddAll(_, _, _, _)

\* for a in actor: self.add_actor(a, static=static)
AddActors(w, i, elems, n, static) ==
  IF n > Len(elems) \/ w.err
    THEN w
    ELSE AddActors(add_actor(w, i, elems[n], static), i, elems, n + 1, static)

\* Timeline.add_actor: a static actor joins _static_actors, any other actor
\* joins the items of the Container, which the actors property and
\* remove_actor read (an item that is not an actor has no vcolors to read).
add_actor(w, i, actor, static) ==
  IF actor.type = "list"
    THEN AddActors(w, i, actor.elems, 1, static)
    ELSE IF static
           THEN [w EXCEPT !.T[i].static_actors = Append(@, actor.id)]
           ELSE IF actor.type = "Actor"
                  THEN [w EXCEPT !.T[i].items = Append(@, actor.id)]
                  ELSE Raise(w, "AttributeError")

\* for a in item: self.add(a)
AddAll(w, i, elems, n) ==
  IF n > Len(elems) \/ w.err
    THEN w
    ELSE AddAll(add(w, i, elems[n]), i, elems, n + 1)

\* An add that skips what it cannot add.
add_skip(w, i, item) ==
  IF item.type = "list"
    THEN AddAll(w, i, item.elems, 1)
    ELSE IF item.type = "Actor"
           THEN add_actor(w, i, item, FALSE)
           ELSE IF item.type = "Timeline"
                  THEN add_timeline(w, i, item.tl)
                  ELSE w

\* Timeline.add
add(w, i, item) ==
  IF item.type = "list"
    THEN AddAll(w, i, item.elems, 1)
    ELSE IF item.type = "Actor"
           THEN add_actor(w, i, item, FALSE)
           ELSE IF item.type = "Timeline"
                  THEN add_timeline(w, i, item.tl)
                  ELSE Raise(w, "ValueError")

\* Timeline.remove_actors
remove_actors(w, i) == [w EXCEPT !.T[i].items = <<>>]

\* A set_interpolator that does not look for the keyframes of the channel.
set_interpolator_nocheck(w, i, attrib, interpolator, is_camera, spline_degree) ==
  LET typ == IF is_camera THEN "camera" ELSE "attribs" IN
  [w EXCEPT !.T[i].interpolators[typ] =
              DictSet(@, attrib,
                      Interpolator(interpolator, typ, attrib, None))]

\* Timeline.set_interpolator
set_interpolator(w, i, attrib, interpolator, is_camera, spline_degree) ==
  LET typ == IF is_camera THEN "camera" ELSE "attribs" IN
  IF attrib \in DOMAIN w.T[i].keyframes[typ]
    THEN LET interp ==
               IF spline_degree # None /\ interpolator = "SplineInterpolator"
                 THEN Interpolator(interpolator, typ, attrib, spline_degree)
                 ELSE Interpolator(interpolator, typ, attrib, None)
             keyframes == w.T[i].keyframes[typ][attrib]
         IN [w EXCEPT !.T[i].interpolators[typ] =
                        DictSet(@, attrib, Interpolator_setup(interp, keyframes))]
    ELSE w

\* LinearInterpolator.interpolate, the neighbours of t being nb: the blend
\* of the two values at tau = a / b, as the fraction num / den.
Linear_interpolate(keyframes, nb, t) ==
  LET dt == get_time_tau(t, nb[1], nb[2])
  IN [num |-> VAdd(VScale(dt[2] - dt[1], keyframes[nb[1]].value),
                   VScale(dt[1], keyframes[nb[2]].value)),
      den |-> dt[2]]

\* StepInterpolator.interpolate: the value of the keyframe at or immediately
\* before t (the first keyframe when t is before all of them).
Step_interpolate(keyframes, t) ==
  LET before == {x \in DOMAIN keyframes : x <= t}
      t0 == IF before = {} THEN MinOf(DOMAIN keyframes) ELSE MaxOf(before)
  IN [num |-> keyframes[t0].value, den |-> 1]

\* The keyframe dict an interpolator of a Timeline was constructed on.
KeyframesOf(tl, interpolator) ==
  tl.keyframes[interpolator.keyframes[1]][interpolator.keyframes[2]]

\* The keyframes an interpolator works with: the entries of its dict at the
\* timestamps of its last setup.
Sampled(tl, interpolator) ==
  [t \in interpolator.timestamps |-> KeyframesOf(tl, interpolator)[t]]

\* A get_value that falls back on the camera channel of the same name (read
\* with the Step rule) when the object channel is missing.
get_value_fallback(tl, attrib, timestamp, nb) ==
  IF attrib \in DOMAIN tl.interpolators.attribs
    THEN LET interpolator == tl.interpolators.attribs[attrib]
             keyframes == Sampled(tl, interpolator)
             r == IF interpolator.cls = "StepInterpolator"
                    THEN Step_interpolate(keyframes, timestamp)
                    ELSE Linear_interpolate(keyframes, nb, timestamp)
         IN [ok |-> TRUE, num |-> r.num, den |-> r.den]
    ELSE IF attrib \in DOMAIN tl.interpolators.camera
           THEN LET r == Step_interpolate(
                           Sampled(tl, tl.interpolators.camera[attrib]), timestamp)
                IN [ok |-> TRUE, num |-> r.num, den |-> r.den]
           ELSE [ok |-> FALSE, num |-> <<>>, den |-> 1]

\* Timeline.get_value: interpolators['attribs'].get(attrib).interpolate(
\* timestamp); on a missing channel .get gives None and the call raises
\* AttributeError (ok = FALSE).  nb is the pair of neighbours a Linear
\* interpolator works between.
get_value(tl, attrib, timestamp, nb) ==
  IF attrib \notin DOMAIN tl.interpolators.attribs
    THEN [ok |-> FALSE, num |-> <<>>, den |-> 1]
    ELSE LET interpolator == tl.interpolators.attribs[attrib]
             keyframes == Sampled(tl, interpolator)
             r == CASE interpolator.cls = "StepInterpolator" ->
                         Step_interpolate(keyframes, timestamp)
                    [] interpolator.cls = "LinearInterpolator" ->
                         Linear_interpolate(keyframes, nb, timestamp)
         IN [ok |-> TRUE, num |-> r.num, den |-> r.den]

\* Timeline.get_position
get_position(tl, t, nb) == get_value(tl, "position", t, nb)

\* Timeline.get_camera_value: as get_value, in interpolators['camera'].
get_camera_value(tl, attrib, timestamp, nb) ==
  IF attrib \notin DOMAIN tl.interpolators.camera
    THEN [ok |-> FALSE, num |-> <<>>, den |-> 1]
    ELSE LET interpolator == tl.interpolators.camera[attrib]
             keyframes == Sampled(tl, interpolator)
             r == CASE interpolator.cls = "StepInterpolator" ->
                         Step_interpolate(keyframes, timestamp)
                    [] interpolator.cls = "LinearInterpolator" ->
                         Linear_interpolate(keyframes, nb, timestamp)
         IN [ok |-> TRUE, num |-> r.num, den |-> r.den]

\* Timeline.get_camera_position
get_camera_position(tl, t, nb) == get_camera_value(tl, "position", t, nb)

\* dict.get of a keyframe's data: None when the key is missing.
KeyframeData(value, in_tangent, out_tangent) ==
  [value |-> value, in_tangent |-> in_tangent, out_tangent |-> out_tangent]

\* The keyframes of a channel as set_keyframe stores them: value, pre_cp and
\* post_cp, hence no in_tangent and no out_tangent.
ChannelKeyframes(tl, typ, attrib) ==
  LET kf == tl.keyframes[typ][attrib]
  IN [t \in DOMAIN kf |-> KeyframeData(kf[t].value, None, None)]

\* TanCubicSplineInterpolator.__init__: both tests read in_tangent, and
\* out_tangent is left as it was.
TanCubicSplineInterpolator(keyframes) ==
  [t \in DOMAIN keyframes |->
     LET data == keyframes[t]
         d1 == IF data.in_tangent = None
                 THEN [data EXCEPT !.in_tangent = Some(zeros_like(data.value))]
                 ELSE data
     IN IF d1.in_tangent = None
          THEN [d1 EXCEPT !.in_tangent = Some(zeros_like(d1.value))]
          ELSE d1]

\* A constructor that also fills in a missing out_tangent.
TanCubicSplineInterpolator_both(keyframes) ==
  [t \in DOMAIN keyframes |->
     LET data == keyframes[t]
     IN [data EXCEPT
           !.in_tangent = IF @ = None THEN Some(zeros_like(data.value)) ELSE @,
           !.out_tangent = IF @ = None THEN Some(zeros_like(data.value)) ELSE @]]

\* A Hermite combination whose second basis function is t3 - 2 * t2 + 1.
Hermite_h10(p0, tan_0, p1, tan_1, dt) ==
  LET a == dt[1]
      b == dt[2]
  IN [den |-> b * b * b,
      num |-> VAdd(VAdd(VScale(2 * a * a * a - 3 * a * a * b + b * b * b, p0),
                        VScale(a * a * a - 2 * a * a * b + b * b * b, tan_0)),
                   VAdd(VScale(3 * a * a * b - 2 * a * a * a, p1),
                        VScale(a * a * a - a * a * b, tan_1)))]

\* A combination that drops the tangents and blends the values linearly.
Hermite_lerp(p0, tan_0, p1, tan_1, dt) ==
  LET a == dt[1]
      b == dt[2]
  IN [den |-> b * b * b,
      num |-> VAdd(VScale(b * b * b - a * b * b, p0), VScale(a * b * b, p1))]

\* The return expression of TanCubicSplineInterpolator.interpolate with
\* dt = a / b, t2 = dt * dt, t3 = t2 * dt, as the fraction num / den:
\* (2*t3 - 3*t2 + 1) * p0 + (t3 - 2*t2 + dt) * tan_0
\*   + (-2*t3 + 3*t2) * p1 + (t3 - t2) * tan_1
Hermite(p0, tan_0, p1, tan_1, dt) ==
  LET a == dt[1]
      b == dt[2]
  IN [den |-> b * b * b,
      num |-> VAdd(VAdd(VScale(2 * a * a * a - 3 * a * a * b + b * b * b, p0),
                        VScale(a * a * a - 2 * a * a * b + a * b * b, tan_0)),
                   VAdd(VScale(3 * a * a * b - 2 * a * a * a, p1),
                        VScale(a * a * a - a * a * b, tan_1)))]

\* TanCubicSplineInterpolator.interpolate, the neighbours of t being nb:
\* None * time_delta is a TypeError.
TanCubic_interpolate(keyframes, nb, t) ==
  LET t0 == nb[1]
      t1 == nb[2]
      dt == get_time_tau(t, t0, t1)
      time_delta == t1 - t0
      p0 == keyframes[t0].value
      p1 == keyframes[t1].value
  IN IF keyframes[t0].out_tangent = None \/ keyframes[t1].in_tangent = None
       THEN [ok |-> FALSE, num |-> <<>>, den |-> 1]
       ELSE LET tan_0 == VScale(time_delta, keyframes[t0].out_tangent[1])
                tan_1 == VScale(time_delta, keyframes[t1].in_tangent[1])
                h == Hermite(p0, tan_0, p1, tan_1, dt)
            IN [ok |-> TRUE, num |-> h.num, den |-> h.den]

\* Timeline.add_to_scene_at
add_to_scene_at(w, i, timestamp) ==
  [w EXCEPT !.T[i].add_to_scene_time = timestamp]

\* Timeline.remove_from_scene_at
remove_from_scene_at(w, i, timestamp) ==
  [w EXCEPT !.T[i].remove_from_scene_time = Some(timestamp)]

\* ---- the state machine ----

Lengths == {None, Some(1)}
\* Keyframe values: an ndarray of shape (3,), another one, and one of
\* shape (2,).
Vec3 == <<1, 1, 1>>
Vec3b == <<2, 2, 2>>
Vec2 == <<1, 1>>
KeyTimes == {0, MaxKey}
SeekTimes == -1..(MaxKey + 1)
SpeedInputs == -1..MaxSpeed
EntryTimes == {0, 2}
ExitTimes == {1, 5}

Op(name, i, arg) == [op |-> name, tl |-> i, arg |-> arg]

Count(events, kind, i) ==
  Cardinality({n \in 1..Len(events) : events[n].k = kind /\ events[n].tl = i})

\* Bookkeeping of the run "add_to_scene, then update_animation(0),
\* update_animation(1), ...": next is the timestamp the run expects next
\* (-1: no such run is under way), adds / rems count the scene hooks the
\* updates of the run have invoked on Root, start_in is _added_to_scene as
\* add_to_scene left it.
ScnOff == [next |-> -1, adds |-> 0, rems |-> 0, start_in |-> FALSE]

ScnAfter(w, name, i, arg) ==
  IF i # Root
    THEN ScnOff
    ELSE IF name = "add_to_scene"
           THEN [next |-> 0, adds |-> 0, rems |-> 0,
                 start_in |-> w.T[Root].added_to_scene]
           ELSE IF name = "update_at" /\ scn.next = arg[1]
                  THEN [scn EXCEPT !.next = @ + 1,
                                   !.adds = @ + Count(w.ev, "add", Root),
                                   !.rems = @ + Count(w.ev, "remove", Root)]
                  ELSE ScnOff

Init ==
  /\ \E p \in BOOLEAN, l \in Lengths :
        T = [i \in Timelines |-> IF i = Root THEN NewTimeline(p, l)
                                             ELSE NewTimeline(FALSE, None)]
  /\ now = 0
  /\ ev = <<>>
  /\ lastOp = Op("init", Root, None)
  /\ scn = ScnOff
  /\ cubic = None

Start == World(T, <<>>, FALSE)

Do(w, name, i, arg) ==
  /\ T' = w.T
  /\ ev' = w.ev
  /\ lastOp' = Op(name, i, arg)
  /\ scn' = ScnAfter(w, name, i, arg)
  /\ UNCHANGED <<now, cubic>>

\* The wall clock (time.perf_counter) advances by one second.
Tick ==
  /\ now < MaxNow * Scale
  /\ now' = now + Scale
  /\ UNCHANGED <<T, ev, lastOp, scn, cubic>>

\* lastOp of play and pause also records what current_timestamp, the final
\* timestamp, the playing flag and the wall clock were when the call began.
Play(i) ==
  Do(play(Start, i), "play", i,
     Some([t0 |-> Clock(T[i]), final |-> T[i].final_timestamp,
           playing |-> T[i].playing, at |-> now]))
Pause(i) == Do(pause(Start, i), "pause", i, Some(Clock(T[i])))
Stop(i) == Do(stop(Start, i), "stop", i, None)
Restart(i) == Do(restart(Start, i), "restart", i, None)
Seek(i, t) == Do(seek(Start, i, t), "seek", i, Some(t))
SetSpeed(i, s) == Do(set_speed(Start, i, s), "speed", i, Some(s))
SetTimestamp(i, t) == Do(set_timestamp(Start, i, t), "set_timestamp", i, Some(t))
SeekPercent(i, p) == Do(seek_percent(Start, i, p), "seek_percent", i, Some(p))
Update(i) == Do(update_animation(Start, i, None, FALSE, None), "update", i, None)
UpdateAt(i, t) ==
  Do(update_animation(Start, i, Some(t), FALSE, None), "update_at", i, Some(t))
SetKeyframe(i, a, t, v, c) ==
  Do(set_keyframe(Start, i, a, t, v, c), "set_keyframe", i,
     Some([attrib |-> a, t |-> t, value |-> v, is_camera |-> c,
           cur |-> Clock(T[i])]))
SetInterpolator(i, a, cls, c, d) ==
  Do(set_interpolator(Start, i, a, cls, c, d), "set_interpolator", i,
     Some([attrib |-> a, cls |-> cls, is_camera |-> c, degree |-> d]))
SetRotation(i, t, r) ==
  Do(set_rotation(Start, i, t, r), "set_rotation", i,
     Some([t |-> t, value |-> r]))
SetRotationAsVector(i, t, v) ==
  Do(set_rotation_as_vector(Start, i, t, v), "set_rotation_as_vector", i,
     Some([t |-> t, value |-> v]))
Add(i, item) ==
  /\ Len(T[i].items) + Len(T[i].timelines) < MaxMembers
  /\ Do(add(Start, i, item), "add", i, Some(item))
AddStaticActor(i, a) ==
  /\ Len(T[i].static_actors) < MaxMembers
  /\ Do(add_actor(Start, i, a, TRUE), "add_static_actor", i, Some(a))
RemoveActors(i) ==
  /\ Len(T[i].items) > 0
  /\ Do(remove_actors(Start, i), "remove_actors", i, None)
RemoveTimelines(i) ==
  /\ Len(T[i].timelines) > 0
  /\ Do(remove_timelines(Start, i), "remove_timelines", i, None)
\* set_loop, the panel's on_loop_toggle callback.
SetLoop(i, b) ==
  /\ T[i].playback_panel
  /\ Do([Start EXCEPT !.T[i].loop = b], "set_loop", i, Some(b))
AddToScene(i) == Do(add_to_scene(Start, i), "add_to_scene", i, None)
AddToSceneAt(i, t) == Do(add_to_scene_at(Start, i, t), "add_to_scene_at", i, Some(t))
RemoveFromSceneAt(i, t) ==
  Do(remove_from_scene_at(Start, i, t), "remove_from_scene_at", i, Some(t))
AddTimeline(i, c) ==
  /\ Len(T[i].timelines) = 0
  /\ Do(add_timeline(Start, i, c), "add_timeline", i, Some(c))

\* The playback clock of one Timeline.
Next ==
  \/ Tick
  \/ Play(Root)
  \/ Pause(Root)
  \/ Stop(Root)
  \/ Restart(Root)
  \/ \E t \in SeekTimes : Seek(Root, t)
  \/ \E s \in SpeedInputs : SetSpeed(Root, s)
  \/ Update(Root)
  \/ \E t \in KeyTimes : SetKeyframe(Root, "position", t, Vec3, FALSE)
  \/ \E b \in BOOLEAN : SetLoop(Root, b)

Spec == Init /\ [][Next]_vars

\* The scene-membership window of one Timeline.
NextScene ==
  \/ Tick
  \/ Play(Root)
  \/ Update(Root)
  \/ \E t \in EntryTimes : AddToSceneAt(Root, t)
  \/ \E t \in ExitTimes : RemoveFromSceneAt(Root, t)
  \/ AddToScene(Root)
  \/ \E t \in 0..MaxT : UpdateAt(Root, t)

SpecScene == Init /\ [][NextScene]_vars

\* A parent Timeline with one child Timeline, in a scene with a camera.
InitTree ==
  /\ \E p \in BOOLEAN :
        T = [i \in Timelines |-> IF i = Root THEN NewTimeline(p, None)
                                             ELSE NewTimeline(FALSE, None)]
  /\ now = 0
  /\ ev = <<>>
  /\ lastOp = Op("init", Root, None)
  /\ scn = ScnOff
  /\ cubic = None

NextTree ==
  \/ Tick
  \/ Play(Root)
  \/ Stop(Root)
  \/ \E t \in {-1, 1, MaxKey + 1} : Seek(Root, t)
  \/ SetKeyframe(Root, "position", MaxKey, Vec3, FALSE)
  \/ AddTimeline(Root, Child)
  \/ AddToScene(Root)
  \/ SetKeyframe(Child, "position", MaxKey, Vec3, FALSE)
  \/ SetKeyframe(Child, "focal", 0, Vec3, TRUE)
  \/ SetTimestamp(Child, 1)

SpecTree == InitTree /\ [][NextTree]_vars

\* update_animation(force=True) and update_final_timestamp called from
\* outside on a Timeline.
ForcedUpdate(i) ==
  Do(update_animation(Start, i, None, TRUE, None), "forced_update", i, None)
UpdateFinalTimestamp(i) ==
  Do(update_final_timestamp(Start, i), "update_final_timestamp", i, None)

\* add_timeline with any Timeline of the program as the argument: one that
\* is already in the list, the Timeline itself, or one of its ancestors.
AddTimelineTo(i, c) ==
  /\ Len(T[i].timelines) < MaxMembers
  /\ Do(add_timeline(Start, i, c), "add_timeline", i, Some(c))

\* The structures add_timeline builds over two Timelines, and the passes
\* over them.
NextGraph ==
  \/ \E i \in Timelines, c \in Timelines : AddTimelineTo(i, c)
  \/ SetKeyframe(Child, "position", MaxKey, Vec3, FALSE)
  \/ ForcedUpdate(Root)
  \/ UpdateFinalTimestamp(Root)

SpecGraph == InitTree /\ [][NextGraph]_vars

\* The keyframe data of a parent Timeline and a child: keyframes with
\* several values, interpolator classes, the list of children.
InterpolatorClasses == {"StepInterpolator", "SplineInterpolator"}

NextData ==
  \/ \E t \in KeyTimes, v \in {Vec3, Vec3b, Vec2} :
        SetKeyframe(Root, "position", t, v, FALSE)
  \/ SetKeyframe(Child, "position", MaxKey, Vec3, FALSE)
  \/ \E cls \in InterpolatorClasses, c \in BOOLEAN, d \in {None, Some(2)} :
        SetInterpolator(Root, "position", cls, c, d)
  \/ AddTimeline(Root, Child)
  \/ RemoveTimelines(Root)
  \/ Seek(Root, 1)

SpecData == Init /\ [][NextData]_vars

\* A parent and a child Timeline, both with a scene-membership window, the
\* child with camera keyframes, updated at explicit query times.
NextNest ==
  \/ AddTimeline(Root, Child)
  \/ AddToScene(Root)
  \/ Play(Root)
  \/ SetKeyframe(Root, "position", MaxKey, Vec3, FALSE)
  \/ SetKeyframe(Child, "position", MaxKey, Vec3, FALSE)
  \/ SetKeyframe(Child, "focal", 0, Vec3, TRUE)
  \/ SetKeyframe(Child, "view_up", 0, Vec3, TRUE)
  \/ AddToSceneAt(Root, 2)
  \/ RemoveFromSceneAt(Child, 1)
  \/ \E t \in 0..MaxNow : UpdateAt(Root, t)

SpecNest == InitTree /\ [][NextNest]_vars

\* The rotation channel of one Timeline, written through the rotation
\* setters while the Timeline is played.
RotationInputs ==
  {<<0, 0, 0>>, <<180, 0, 0>>, <<0, 0, 0, 1>>, <<1, 1>>, <<1, 1, 1, 1, 1>>}
RotationVectors == {<<0, 0, 0>>, <<1, 0, 0>>}

NextRot ==
  \/ Tick
  \/ Play(Root)
  \/ Pause(Root)
  \/ \E t \in KeyTimes, r \in RotationInputs : SetRotation(Root, t, r)
  \/ \E t \in KeyTimes, v \in RotationVectors : SetRotationAsVector(Root, t, v)

SpecRot == InitTree /\ [][NextRot]_vars

\* The cubic-with-tangents interpolator, constructed on keyframes given
\* directly or on the position channel of a Timeline, and queried.
CubicValues == {<<0, 0, 0>>, <<3, 0, -1>>}
TanA == <<1, -1, 0>>
TanB == <<0, 2, 0>>
CubicTangents ==
  { <<None, None>>, <<Some(zeros_like(TanA)), Some(zeros_like(TanA))>>,
    <<Some(TanA), Some(TanB)>>, <<None, Some(TanA)>> }
CubicKeyframes ==
  { [t \in {0, t1} |->
       IF t = 0 THEN KeyframeData(v0, g0[1], g0[2])
                ELSE KeyframeData(v1, g1[1], g1[2])] :
      t1 \in {MaxKey, MaxT}, v0 \in CubicValues, v1 \in CubicValues,
      g0 \in CubicTangents, g1 \in CubicTangents }

NewTanCubic(keyframes, from) ==
  /\ cubic' = Some(TanCubicSplineInterpolator(keyframes))
  /\ lastOp' = Op("TanCubicSplineInterpolator", Root, Some([from |-> from]))
  /\ ev' = <<>>
  /\ UNCHANGED <<T, now, scn>>
NewTanCubicOn(keyframes) == NewTanCubic(keyframes, "keyframes")
NewTanCubicOnChannel(i, attrib) ==
  /\ attrib \in DOMAIN T[i].keyframes.attribs
  /\ NewTanCubic(ChannelKeyframes(T[i], "attribs", attrib), "channel")
Interpolate(t) ==
  /\ cubic # None
  /\ \E nb \in NeighbourTimestamps(cubic[1], t) :
        LET r == TanCubic_interpolate(cubic[1], nb, t) IN
        /\ lastOp' = Op("interpolate", Root, Some([t |-> t, nb |-> nb, r |-> r]))
        /\ ev' = IF r.ok THEN <<>> ELSE <<[k |-> "raise", what |-> "TypeError"]>>
  /\ UNCHANGED <<T, now, scn, cubic>>

NextCubic ==
  \/ \E kf \in CubicKeyframes : NewTanCubicOn(kf)
  \/ \E t \in KeyTimes : SetKeyframe(Root, "position", t, Vec3, FALSE)
  \/ NewTanCubicOnChannel(Root, "position")
  \/ \E t \in 0..MaxT : Interpolate(t)

SpecCubic == InitTree /\ [][NextCubic]_vars

\* Keyframes of the position channel in both namespaces, its interpolator
\* and queries of its value.
ScenarioTimes == {0, 10}
ScenarioValues == {<<0, 0, 0>>, <<10, 0, 0>>}
QueryTimes == {0, 5, 10}
ScenarioInterpolators == {"LinearInterpolator", "StepInterpolator"}

GetPosition(i, t) ==
  \E nb \in IF "position" \in DOMAIN T[i].interpolators.attribs
               THEN NeighbourTimestamps(
                      Sampled(T[i], T[i].interpolators.attribs["position"]), t)
               ELSE {<<t, t>>} :
    LET r == get_position(T[i], t, nb) IN
    Do(IF r.ok THEN Start ELSE Raise(Start, "AttributeError"),
       "get_position", i, Some([t |-> t, nb |-> nb, r |-> r]))

GetCameraPosition(i, t) ==
  \E nb \in IF "position" \in DOMAIN T[i].interpolators.camera
               THEN NeighbourTimestamps(
                      Sampled(T[i], T[i].interpolators.camera["position"]), t)
               ELSE {<<t, t>>} :
    LET r == get_camera_position(T[i], t, nb) IN
    Do(IF r.ok THEN Start ELSE Raise(Start, "AttributeError"),
       "get_camera_position", i, Some([t |-> t, nb |-> nb, r |-> r]))

NextInterp ==
  \/ \E t \in ScenarioTimes, v \in ScenarioValues, c \in BOOLEAN :
        SetKeyframe(Root, "position", t, v, c)
  \/ \E cls \in ScenarioInterpolators, c \in BOOLEAN :
        SetInterpolator(Root, "position", cls, c, None)
  \/ \E t \in QueryTimes : GetPosition(Root, t)
  \/ \E t \in QueryTimes : GetCameraPosition(Root, t)

SpecInterp == InitTree /\ [][NextInterp]_vars

\* The stored time of one Timeline under every operation that writes it.
Percents == {0, 100, 200}

NextStored ==
  \/ Tick
  \/ Play(Root)
  \/ Pause(Root)
  \/ Stop(Root)
  \/ \E t \in SeekTimes : Seek(Root, t)
  \/ \E p \in Percents : SeekPercent(Root, p)
  \/ \E t \in SeekTimes : SetTimestamp(Root, t)
  \/ \E s \in SpeedInputs : SetSpeed(Root, s)
  \/ SetKeyframe(Root, "position", MaxKey, Vec3, FALSE)
  \/ Update(Root)

SpecStored == Init /\ [][NextStored]_vars

\* The members of one Timeline: controlled actors, static actors, children.
AddInputs ==
  { AnActor("a1"), AnActor("a2"), ATimeline(Child), AnObject("x"),
    AList(<<AnActor("a1"), ATimeline(Child)>>),
    AList(<<AnActor("a1"), AnObject("x"), AnActor("a2")>>),
    AList(<<AnObject("x"), AnActor("a1")>>),
    AList(<<ATimeline(Child), AList(<<AnActor("a2"), AnObject("x")>>)>>) }

NextMembers ==
  \/ \E item \in AddInputs : Add(Root, item)
  \/ AddStaticActor(Root, AnActor("s1"))
  \/ RemoveActors(Root)
  \/ RemoveTimelines(Root)

SpecMembers == InitTree /\ [][NextMembers]_vars

\* Exactness of the time arithmetic: every division of the model is exact.
ExactClock ==
  \A i \in Timelines :
     T[i].playing =>
        ((now - T[i].last_started_time) * T[i].speed) % Scale = 0

\* ---- properties ----

Cur == Clock(T[Root])
Final == T[Root].final_timestamp
Playing == T[Root].playing

\* The step is a call of the operation `name` (the wall clock stands still
\* during a call and lastOp names the call).
Called(name) == now' = now /\ lastOp'.op = name

Raised(events) == \E n \in 1..Len(events) : events[n].k = "raise"

\* The timestamps of the passes over the attributes of Timeline i.
UpdatesOf(events, i) ==
  SelectSeq(events, LAMBDA e : e.k = "update" /\ e.tl = i)

\* The attribute applications of an event list.
AppliesOf(events) == SelectSeq(events, LAMBDA e : e.k = "apply")

InWindow(tl, t) ==
  /\ tl.add_to_scene_time <= t
  /\ tl.remove_from_scene_time = None \/ t < tl.remove_from_scene_time[1]

\* C1 (scenario part): in a run add_to_scene, update_animation(0), ...,
\* update_animation(k) with the window entry < exit configured beforehand and
\* the Timeline left out of the scene by add_to_scene, the updates have
\* invoked 'add' once iff k has reached the entry time (none before) and
\* 'remove' once iff k has reached the exit time (none before).
ScenarioCounts ==
  LET tl == T[Root]
      k == scn.next - 1
  IN (/\ scn.next >= 1
      /\ ~scn.start_in
      /\ tl.remove_from_scene_time # None
      /\ tl.add_to_scene_time < tl.remove_from_scene_time[1])
     => /\ scn.adds = IF k >= tl.add_to_scene_time THEN 1 ELSE 0
        /\ scn.rems = IF k >= tl.remove_from_scene_time[1] THEN 1 ELSE 0

C2_WrapsByOvershoot ==
  [][ (Called("update") /\ Playing /\ T[Root].loop /\ Cur > Final)
        => (Playing' /\ Cur' = Cur - Final) ]_vars

\* C2 amended: a playing, looping Timeline updated past its final timestamp
\* restarts at 0 (the overshoot is dropped) and stays playing.
C2_WrapsToZero ==
  [][ (Called("update") /\ Playing /\ T[Root].loop /\ Cur > Final)
        => (Playing' /\ Cur' = 0) ]_vars

\* C2 witness: after such an update the time read by the update (kept in
\* _last_timestamp) is past the final timestamp by 2 and the clock is at 0.
C2_Witness ==
  /\ lastOp.op = "update"
  /\ T[Root].loop
  /\ Playing
  /\ Final > 0
  /\ T[Root].last_timestamp = Final + 2
  /\ Cur = 0

\* C3: a playing Timeline without loop that is updated past its final
\* timestamp does not raise, is clamped to the final timestamp and is paused,
\* with or without a playback panel.
C3_ClampsAndPauses ==
  [][ (Called("update") /\ Playing /\ ~T[Root].loop /\ Cur > Final)
        => (~Raised(ev') /\ ~Playing' /\ Cur' = Final) ]_vars

\* C4: after play() on a non-playing Timeline whose stored time t0 is in
\* [0, final), and until another operation is called, the Timeline is
\* playing and current_timestamp is t0 + d * speed, d being the seconds
\* since the call.
C4_PlayAdvancesBySpeed ==
  (/\ lastOp.op = "play"
   /\ ~lastOp.arg[1].playing
   /\ 0 <= lastOp.arg[1].t0
   /\ lastOp.arg[1].t0 < lastOp.arg[1].final)
  => /\ Playing
     /\ Cur * Scale = lastOp.arg[1].t0 * Scale
                        + (now - lastOp.arg[1].at) * T[Root].speed

\* C4 witness: speed 2, play() at stored time 0, read one second later: 2.
C4_Witness ==
  /\ lastOp.op = "play"
  /\ ~lastOp.arg[1].playing
  /\ lastOp.arg[1].t0 = 0
  /\ lastOp.arg[1].final > 0
  /\ T[Root].speed = 2
  /\ now = lastOp.arg[1].at + Scale
  /\ Cur = 2

\* C5: seek(t) clamps t to [0, final_timestamp]; on a playing Timeline the
\* next read of current_timestamp is the clamped t and no update is forced;
\* on a non-playing one the clamped t is stored and exactly one forced update
\* is performed, at the clamped t.
C5_SeekClamps ==
  [][ Called("seek") =>
          LET t == lastOp'.arg[1]
              c == IF t < 0 THEN 0 ELSE IF t > Final THEN Final ELSE t
              ups == UpdatesOf(ev', Root)
          IN IF Playing
               THEN Playing' /\ Cur' = c /\ Len(ups) = 0
               ELSE /\ ~Playing'
                    /\ T'[Root].last_timestamp = c
                    /\ Len(ups) = 1
                    /\ ups[1].t = c ]_vars

\* C5 witness: a seek beyond the final timestamp, clamped, on a playing
\* Timeline at speed 2.
C5_Witness ==
  /\ lastOp.op = "seek"
  /\ lastOp.arg[1] = MaxKey + 1
  /\ Playing
  /\ T[Root].speed = 2
  /\ Final = MaxKey
  /\ Cur = MaxKey

\* What the claims observe of a world: the time, the playing flag and the
\* attribute applications.
Observed(w) ==
  <<IF w.T[Root].playing
      THEN ((now - w.T[Root].last_started_time) * w.T[Root].speed) \div Scale
      ELSE w.T[Root].last_timestamp,
    w.T[Root].playing,
    AppliesOf(w.ev)>>

\* C6: in every reachable state and for every t, seek(t) twice at the same
\* instant leaves the same current_timestamp, playing flag and applied
\* attribute values as seek(t) once.
C6_SeekIdempotent ==
  \A t \in SeekTimes :
     LET once == seek(Start, Root, t)
         twice == seek(World(once.T, <<>>, FALSE), Root, t)
     IN Observed(twice) = Observed(once)

\* C7: assigning a positive speed leaves current_timestamp as it was, in
\* every reachable state.
C7_SpeedPreservesTime ==
  [][ (Called("speed") /\ lastOp'.arg[1] > 0) => Cur' = Cur ]_vars

\* C8: after pause(), and until another operation is called, the Timeline is
\* not playing and current_timestamp is what it was at the instant of the
\* call, whatever the wall clock.
C8_PauseFreezes ==
  lastOp.op = "pause" => (~Playing /\ Cur = lastOp.arg[1])

\* C8 witness: paused at a non-zero time, read one or more seconds later.
C8_Witness ==
  /\ lastOp.op = "pause"
  /\ lastOp.arg[1] > 0
  /\ Cur = lastOp.arg[1]
  /\ T[Root].last_started_time + (Cur * Scale) \div T[Root].speed < now

\* C9: stop() leaves the Timeline not playing at time 0 and performs exactly
\* one forced update, in which every attribute application, of the Timeline
\* and of its children, is at time 0.
C9_StopUpdatesAtZero ==
  [][ Called("stop") =>
        /\ ~Playing'
        /\ Cur' = 0
        /\ ~Raised(ev')
        /\ Len(UpdatesOf(ev', Root)) = 1
        /\ \A n \in 1..Len(ev') :
             ev'[n].k = "update" => ev'[n].t = 0
        /\ \A n \in 1..Len(ev') :
             ev'[n].k = "apply" => ev'[n].t \in {None, Some(0)} ]_vars

\* C10: play() on a non-playing Timeline whose current time is at or after
\* the final timestamp seeks to 0 (storing 0 and forcing an update at 0) and
\* leaves the Timeline playing from 0; below the final timestamp it leaves
\* it playing from the stored time and forces no update.
C10_PlayRestartsAtEnd ==
  [][ (Called("play") /\ ~Playing) =>
        LET ups == UpdatesOf(ev', Root) IN
        /\ Playing'
        /\ IF Cur >= Final
             THEN Cur' = 0 /\ Len(ups) = 1 /\ ups[1].t = 0
             ELSE Cur' = Cur /\ Len(ups) = 0 ]_vars

\* The timestamps of the keyframes of a Timeline, in both namespaces.
KeyframeTimes(tl) ==
  UNION {UNION {DOMAIN tl.keyframes[typ][a] : a \in DOMAIN tl.keyframes[typ]} :
           typ \in {"attribs", "camera"}}

RECURSIVE TrueFinal(_)
\* The maximum of the timestamps of the keyframes of Timeline i and of the
\* final timestamps, so computed, of its current children.
TrueFinal(i) ==
  MaxOf({0} \cup KeyframeTimes(T[i])
            \cup {TrueFinal(T[i].timelines[n]) :
                     n \in 1..Len(T[i].timelines)})

\* C11: the final timestamp of a Timeline without a fixed length is, in
\* every reachable state, the maximum of the timestamps of its own keyframes
\* and of the final timestamps of its current children.
C11_FinalIsMax ==
  \A i \in Timelines :
     T[i].length = None => T[i].final_timestamp = TrueFinal(i)

\* C12: a Timeline constructed with a fixed length L has final_timestamp = L
\* in every reachable state, from construction onward and whatever keyframes
\* are set; seek(t) therefore leaves the time at t clamped to [0, L].
C12_FinalIsLength ==
  T[Root].length # None =>
     LET L == T[Root].length[1] IN
     /\ Final = L
     /\ \A t \in SeekTimes :
          Observed(seek(Start, Root, t))[1] =
             IF t < 0 THEN 0 ELSE IF t > L THEN L ELSE t

\* The Timelines of the subtree of Timeline i (the tree has two levels).
Subtree(i) == {i} \cup {T[i].timelines[n] : n \in 1..Len(T[i].timelines)}

\* C13: when a playing parent is updated at query time t, every Timeline of
\* its subtree is updated in that call, and every pass over attributes and
\* every attribute application of the call, of the parent and of its
\* children, is at t.
C13_ChildrenUseParentTime ==
  [][ (Called("update_at") /\ Playing) =>
        LET t == lastOp'.arg[1] IN
        /\ \A j \in Subtree(Root) : Len(UpdatesOf(ev', j)) >= 1
        /\ \A n \in 1..Len(ev') :
             ev'[n].k = "update" => ev'[n].t = t
        /\ \A n \in 1..Len(ev') :
             ev'[n].k = "apply" => ev'[n].t \in {None, Some(t)} ]_vars

IsMarker(e, i) == e.k = "update" /\ e.tl = i
IsApply(e, i, ns) == e.k = "apply" /\ e.tl = i /\ e.ns = ns
IsChildEvent(e, i) ==
  /\ e.k \in {"update", "apply"}
  /\ e.tl # i
  /\ e.tl \in Subtree(i)

\* Positions n < m of an event list lie in the same pass of Timeline i: a
\* pass of i starts at or before n and none starts after it up to m.
SamePass(events, i, n, m) ==
  \E u \in 1..n :
     /\ IsMarker(events[u], i)
     /\ \A x \in (u + 1)..m : ~IsMarker(events[x], i)

\* C14: within one pass of a Timeline no camera attribute is applied after
\* an object attribute of it, and no attribute of it is applied after a
\* child has been updated; and the pass of a parent is followed, within the
\* same call, by a pass of each of its children.
C14_OrderWithinUpdate ==
  /\ \A i \in Timelines : \A n, m \in 1..Len(ev) :
        (n < m /\ SamePass(ev, i, n, m)) =>
           /\ ~(IsApply(ev[n], i, "attribs") /\ IsApply(ev[m], i, "camera"))
           /\ ~(/\ IsChildEvent(ev[n], i)
                /\ (IsApply(ev[m], i, "attribs") \/ IsApply(ev[m], i, "camera")))
  /\ \A u \in 1..Len(ev) :
        (IsMarker(ev[u], Root) /\ ~Raised(ev)) =>
           \A c \in Subtree(Root) \ {Root} :
              \E x \in (u + 1)..Len(ev) : IsMarker(ev[x], c)

\* C14 witness: one call in which the parent applies an object attribute and
\* then its child is updated, applying a camera attribute and then an object
\* attribute.
C14_Witness ==
  \E u, a, c, d, e \in 1..Len(ev) :
     /\ u < a /\ a < c /\ c < d /\ d < e
     /\ IsMarker(ev[u], Root)
     /\ IsApply(ev[a], Root, "attribs")
     /\ IsMarker(ev[c], Child)
     /\ IsApply(ev[d], Child, "camera")
     /\ IsApply(ev[e], Child, "attribs")

\* C15: set_keyframe(attrib, t, value) stores the sample in the channel of
\* the selected namespace (created on first use, an existing sample at t
\* overwritten, the other samples kept), raises the cached final timestamp
\* to t when t exceeds it, and performs exactly one forced update, at the
\* current time, if t > 0 and none if t <= 0.  Stated for a Timeline without
\* a fixed length (with one, the final timestamp is the length).
C15_SetKeyframe ==
  [][ (Called("set_keyframe") /\ T[lastOp'.tl].length = None) =>
        LET i == lastOp'.tl
            a == lastOp'.arg[1]
            typ == IF a.is_camera THEN "camera" ELSE "attribs"
            old == IF a.attrib \in DOMAIN T[i].keyframes[typ]
                     THEN T[i].keyframes[typ][a.attrib]
                     ELSE EmptyDict
            ups == UpdatesOf(ev', i)
        IN /\ a.attrib \in DOMAIN T'[i].keyframes[typ]
           /\ LET new == T'[i].keyframes[typ][a.attrib] IN
                /\ DOMAIN new = DOMAIN old \cup {a.t}
                /\ new[a.t].value = a.value
                /\ \A x \in DOMAIN old \ {a.t} : new[x] = old[x]
           /\ T'[i].final_timestamp =
                 IF a.t > T[i].final_timestamp
                   THEN a.t
                   ELSE T[i].final_timestamp
           /\ ~Raised(ev')
           /\ IF a.t > 0
                THEN Len(ups) = 1 /\ ups[1].t = Clock(T[i])
                ELSE Len(ups) = 0 ]_vars

\* C16: set_interpolator on a channel without keyframes changes no state of
\* any Timeline (no channel, no interpolator is created); on a channel with
\* keyframes it replaces the interpolator of the channel by one of the given
\* class constructed on the keyframes of that channel, and changes nothing
\* else, the keyframes included.
C16_SetInterpolator ==
  [][ Called("set_interpolator") =>
        LET i == lastOp'.tl
            a == lastOp'.arg[1]
            typ == IF a.is_camera THEN "camera" ELSE "attribs"
        IN IF a.attrib \notin DOMAIN T[i].keyframes[typ]
             THEN T' = T /\ ev' = <<>>
             ELSE /\ a.attrib \in DOMAIN T'[i].interpolators[typ]
                  /\ T'[i].interpolators[typ][a.attrib].cls = a.cls
                  /\ T'[i].interpolators[typ][a.attrib].keyframes
                        = <<typ, a.attrib>>
                  /\ T'[i].keyframes = T[i].keyframes
                  /\ T' = [T EXCEPT ![i].interpolators[typ] =
                                      T'[i].interpolators[typ]]
                  /\ DOMAIN T'[i].interpolators[typ]
                        = DOMAIN T[i].interpolators[typ]
                  /\ \A x \in DOMAIN T[i].interpolators[typ] \ {a.attrib} :
                        T'[i].interpolators[typ][x] = T[i].interpolators[typ][x]
                  /\ ev' = <<>> ]_vars

\* C16 witness: the linear interpolator of a position channel with two
\* keyframes has been replaced by a step interpolator.
C16_Witness ==
  /\ lastOp.op = "set_interpolator"
  /\ ~lastOp.arg[1].is_camera
  /\ lastOp.arg[1].cls = "StepInterpolator"
  /\ "position" \in DOMAIN T[Root].keyframes.attribs
  /\ DOMAIN T[Root].keyframes.attribs.position = KeyTimes
  /\ T[Root].interpolators.attribs.position.cls = "StepInterpolator"
  /\ DOMAIN T[Root].interpolators.camera = {}

\* C17: the static members of a Timeline are added to and removed from the
\* scene together with its controlled members: every call adds them as often
\* as it adds the controlled members and removes them as often as it removes
\* those, in add_to_scene and in every transition of the window.  (Attribute
\* applications have the controlled members only as their target.)
C17_StaticFollowMembership ==
  [][ \A i \in Timelines :
        Len(T[i].static_actors) > 0 =>
           /\ Count(ev', "add_static", i) = Count(ev', "add", i)
           /\ Count(ev', "remove_static", i) = Count(ev', "remove", i) ]_vars

HasInterpolator(e) == e.attrib \in DOMAIN T[e.tl].interpolators[e.ns]

\* C18 as stated: an update applies no attribute, view_up of the camera
\* included, whose channel has no interpolator, and does not fail.
C18_NoInterpolatorNoWrite ==
  /\ ~Raised(ev)
  /\ \A n \in 1..Len(ev) : ev[n].k = "apply" => HasInterpolator(ev[n])

\* C18 amended: an update does not fail and applies no attribute whose
\* channel has no interpolator, except view_up of the camera, for which it
\* writes the default view-up (not a value at t); an attribute with an
\* interpolator is applied at t.
C18_OnlyViewUpDefault ==
  /\ ~Raised(ev)
  /\ \A n \in 1..Len(ev) :
        ev[n].k = "apply" =>
           IF HasInterpolator(ev[n])
             THEN ev[n].t # None
             ELSE ev[n].ns = "camera" /\ ev[n].attrib = "view_up" /\ ev[n].t = None

\* C18 witness: a pass of a Timeline with a camera whose only camera channel
\* is focal and whose only object channel is position: it applied focal,
\* the default view-up and position, and nothing else.
C18_Witness ==
  /\ DOMAIN T[Child].interpolators.camera = {"focal"}
  /\ DOMAIN T[Child].interpolators.attribs = {"position"}
  /\ LET ap == SelectSeq(ev, LAMBDA e : e.k = "apply" /\ e.tl = Child) IN
       /\ Len(ap) = 3
       /\ ap[1].attrib = "focal" /\ ap[1].t # None
       /\ ap[2].attrib = "view_up" /\ ap[2].t = None
       /\ ap[3].attrib = "position" /\ ap[3].ns = "attribs"

\* The pass of Timeline i that starts at position u applies an object
\* attribute.
AppliesObject(i, u) ==
  \E m \in (u + 1)..Len(ev) :
     SamePass(ev, i, u, m) /\ IsApply(ev[m], i, "attribs")

\* The pass at position u was propagated by the parent: a pass of Root
\* started before it in the same call.
Propagated(i, u) == i # Root /\ \E r \in 1..(u - 1) : IsMarker(ev[r], Root)

\* C19: a pass at time t of a Timeline with an object channel applies object
\* attributes if and only if t is inside the window of the Timeline (entry
\* <= t, and t < exit if an exit time is set) and, when the pass was
\* propagated by its parent, inside the window of the parent as well.
C19_AppliesIffInScene ==
  \A i \in Timelines : \A u \in 1..Len(ev) :
     (IsMarker(ev[u], i) /\ DOMAIN T[i].interpolators.attribs # {}) =>
        (AppliesObject(i, u) <=>
           /\ InWindow(T[i], ev[u].t)
           /\ Propagated(i, u) => InWindow(T[Root], ev[u].t))

\* The number of components the attribute expects of a keyframe value.
Arities(attrib) ==
  CASE attrib \in {"position", "scale"} -> {3}
    [] attrib \in {"rotation", "color"} -> {3, 4}
    [] attrib = "opacity" -> {1}
    [] OTHER -> {1, 2, 3, 4}

\* C20: set_keyframe with a value whose arity is not one the attribute
\* expects fails with an invalid-value error and leaves the keyframes, the
\* interpolators and the cached final timestamp as they were.
C20_BadArityRejected ==
  [][ (/\ Called("set_keyframe")
       /\ Len(lastOp'.arg[1].value) \notin Arities(lastOp'.arg[1].attrib)) =>
        LET i == lastOp'.tl IN
        /\ Raised(ev')
        /\ T'[i].keyframes = T[i].keyframes
        /\ T'[i].interpolators = T[i].interpolators
        /\ T'[i].final_timestamp = T[i].final_timestamp ]_vars

\* C21: set_rotation with a value of neither 3 nor 4 components does not
\* raise, emits a warning and changes nothing: the rotation channel, the
\* final timestamp and the playback state stay as they were and no attribute
\* is applied.
C21_BadRotationSkipped ==
  [][ (/\ Called("set_rotation")
       /\ Len(lastOp'.arg[1].value) \notin {3, 4}) =>
        /\ ~Raised(ev')
        /\ Count(ev', "warn", Root) = 1
        /\ AppliesOf(ev') = <<>>
        /\ UpdatesOf(ev', Root) = <<>>
        /\ T' = T
        /\ Cur' = Cur ]_vars

\* C21 witness: a 2-component rotation was skipped on a playing Timeline
\* with a rotation keyframe, one second or more into the animation.
C21_Witness ==
  /\ lastOp.op = "set_rotation"
  /\ Len(lastOp.arg[1].value) = 2
  /\ Count(ev, "warn", Root) = 1
  /\ Playing
  /\ Cur > 0
  /\ "rotation" \in DOMAIN T[Root].keyframes.attribs

\* C22: every keyframe of the object rotation channel holds a 4-component
\* (quaternion) value, whichever rotation setter wrote it, and no update
\* fails to read the rotation as a quaternion.
C22_RotationIsQuaternion ==
  /\ \A i \in Timelines :
        "rotation" \in DOMAIN T[i].keyframes.attribs =>
           \A x \in DOMAIN T[i].keyframes.attribs.rotation :
              Len(T[i].keyframes.attribs.rotation[x].value) = 4
  /\ \A n \in 1..Len(ev) :
        ev[n].k = "raise" => ev[n].what # "ValueError"

\* C23: assigning a speed of 0 or less does not raise and is ignored: the
\* speed, the playing flag and the current time are as before and no update
\* is forced.
C23_NonPositiveSpeedIgnored ==
  [][ (Called("speed") /\ lastOp'.arg[1] <= 0) =>
        /\ ~Raised(ev')
        /\ T'[Root].speed = T[Root].speed
        /\ Playing' = Playing
        /\ Cur' = Cur
        /\ UpdatesOf(ev', Root) = <<>>
        /\ AppliesOf(ev') = <<>> ]_vars

\* C23 witness: a negative speed was assigned to a Timeline playing at speed
\* 2, past time 0.
C23_Witness ==
  /\ lastOp.op = "speed"
  /\ lastOp.arg[1] < 0
  /\ Playing
  /\ T[Root].speed = 2
  /\ Cur > 0

\* C25: restart() does not raise and leaves the Timeline playing at time 0:
\* current_timestamp read when it returns is 0 and its forced update is one
\* pass, at time 0.
C25_RestartAtZero ==
  [][ Called("restart") =>
        /\ ~Raised(ev')
        /\ Playing'
        /\ Cur' = 0
        /\ Len(UpdatesOf(ev', Root)) = 1
        /\ \A n \in 1..Len(ev') :
             ev'[n].k = "update" => ev'[n].t = 0
        /\ \A n \in 1..Len(ev') :
             ev'[n].k = "apply" => ev'[n].t \in {None, Some(0)} ]_vars

\* The leaves of an item handed to add, in the order add visits them.
RECURSIVE Leaves(_)
RECURSIVE LeavesOf(_, _)
LeavesOf(elems, n) ==
  IF n > Len(elems) THEN <<>> ELSE Leaves(elems[n]) \o LeavesOf(elems, n + 1)
Leaves(item) == IF item.type = "list" THEN LeavesOf(item.elems, 1) ELSE <<item>>

Supported(item) == item.type \in {"Actor", "Timeline"}
HasUnsupported(item) == \E n \in 1..Len(Leaves(item)) : ~Supported(Leaves(item)[n])
\* The leaves add reaches before the first one it cannot add.
Accepted(item) ==
  LET l == Leaves(item)
      bad == {n \in 1..Len(l) : ~Supported(l[n])}
  IN IF bad = {} THEN l ELSE SubSeq(l, 1, MinOf(bad) - 1)
IdsOf(l, type) ==
  LET sel == SelectSeq(l, LAMBDA x : x.type = type)
  IN [n \in 1..Len(sel) |-> IF type = "Actor" THEN sel[n].id ELSE sel[n].tl]
Members(tl) == <<tl.items, tl.timelines, tl.static_actors>>

\* C24 (as stated): adding an item of an unsupported type, alone or anywhere
\* inside a list, raises an error and leaves every member collection of the
\* timeline as it was.
C24_UnsupportedRejectedUnchanged ==
  [][ (Called("add") /\ HasUnsupported(lastOp'.arg[1])) =>
        /\ Raised(ev')
        /\ Members(T'[Root]) = Members(T[Root]) ]_vars

\* C24 (amended): add raises ValueError exactly when the item holds an
\* unsupported leaf; an unsupported item that is not inside a list leaves the
\* members unchanged, and for a list exactly the supported items that precede
\* the first unsupported one have been added, in order, and none after it.
C24_UnsupportedRejectedPrefixKept ==
  [][ Called("add") =>
        LET item == lastOp'.arg[1] IN
        /\ Raised(ev') <=> HasUnsupported(item)
        /\ Raised(ev') => ev'[Len(ev')].what = "ValueError"
        /\ T'[Root].items = T[Root].items \o IdsOf(Accepted(item), "Actor")
        /\ T'[Root].timelines = T[Root].timelines \o IdsOf(Accepted(item), "Timeline")
        /\ T'[Root].static_actors = T[Root].static_actors
        /\ (item.type # "list" /\ ~Supported(item)) =>
              Members(T'[Root]) = Members(T[Root]) ]_vars

\* A list with an unsupported item in the middle has been added: the actor
\* before it is a member, the actor after it is not.
C24_Witness ==
  /\ lastOp.op = "add"
  /\ lastOp.arg = Some(AList(<<AnActor("a1"), AnObject("x"), AnActor("a2")>>))
  /\ Raised(ev)
  /\ T[Root].items = <<"a1">>

\* The query of the cubic interpolator made by a step: its time, its
\* neighbours, the fraction tau = TauA / TauB, the values and the tangents
\* that enter the formula.
QueryT(op) == op.arg[1].t
T0(op) == op.arg[1].nb[1]
T1(op) == op.arg[1].nb[2]
Result(op) == op.arg[1].r
TauA(op) == get_time_tau(QueryT(op), T0(op), T1(op))[1]
TauB(op) == get_time_tau(QueryT(op), T0(op), T1(op))[2]
V0(op, c) == c[1][T0(op)].value
V1(op, c) == c[1][T1(op)].value
OutTan0(op, c) == c[1][T0(op)].out_tangent
InTan1(op, c) == c[1][T1(op)].in_tangent
\* num / den = v, and the linear blend of v0 and v1 at a / b as numerator over b.
RatEq(r, v) == r.num = VScale(r.den, v)
LerpNum(v0, v1, a, b) == VAdd(VScale(b - a, v0), VScale(a, v1))

\* C26: the cubic-with-tangents interpolator treats a missing tangent as the
\* zero vector, so interpolate(t) returns a value (and raises nothing) on
\* every channel with at least two keyframes, with or without tangents.
C26_MissingTangentDefaultsToZero ==
  [][ (Called("interpolate") /\ Cardinality(DOMAIN cubic[1]) >= 2) =>
        /\ ~Raised(ev')
        /\ Result(lastOp').ok
        /\ LET zero == zeros_like(V0(lastOp', cubic))
               dflt(g) == IF g = None THEN zero ELSE g[1]
           IN Result(lastOp').num =
                Hermite(V0(lastOp', cubic),
                        VScale(T1(lastOp') - T0(lastOp'), dflt(OutTan0(lastOp', cubic))),
                        V1(lastOp', cubic),
                        VScale(T1(lastOp') - T0(lastOp'), dflt(InTan1(lastOp', cubic))),
                        <<TauA(lastOp'), TauB(lastOp')>>).num ]_vars

\* C27: between two neighbouring keyframes t0 < t1 with tangents present, the
\* cubic-with-tangents value is exactly v0 at t = t0 (tau = 0) and exactly v1
\* at t = t1 (tau = 1), whatever the tangents are.
C27_BoundaryExact ==
  [][ (Called("interpolate") /\ Result(lastOp').ok /\ T0(lastOp') < T1(lastOp')) =>
        /\ QueryT(lastOp') = T0(lastOp') =>
              TauA(lastOp') = 0 /\ RatEq(Result(lastOp'), V0(lastOp', cubic))
        /\ QueryT(lastOp') = T1(lastOp') =>
              TauA(lastOp') = TauB(lastOp') /\ RatEq(Result(lastOp'), V1(lastOp', cubic)) ]_vars

\* A query at t = t1 > t0 between different values with non-zero tangents on
\* both sides has returned a value.
C27_Witness ==
  /\ lastOp.op = "interpolate"
  /\ Result(lastOp).ok
  /\ T0(lastOp) < T1(lastOp) /\ QueryT(lastOp) = T1(lastOp)
  /\ V0(lastOp, cubic) # V1(lastOp, cubic)
  /\ OutTan0(lastOp, cubic) = Some(TanB)
  /\ InTan1(lastOp, cubic) = Some(TanA)

\* Both tangents that enter the formula are the zero vector.
ZeroTangents(op, c) ==
  /\ OutTan0(op, c) = Some(zeros_like(V0(op, c)))
  /\ InTan1(op, c) = Some(zeros_like(V1(op, c)))

\* C28 (as stated): with both tangents zero, the cubic-with-tangents value
\* between two keyframes equals lerp(v0, v1, tau) at every tau in [0, 1].
C28_ZeroTangentsLinear ==
  [][ (Called("interpolate") /\ Result(lastOp').ok /\ T0(lastOp') < T1(lastOp')
         /\ ZeroTangents(lastOp', cubic)) =>
        VScale(TauB(lastOp'), Result(lastOp').num) =
          VScale(Result(lastOp').den,
                 LerpNum(V0(lastOp', cubic), V1(lastOp', cubic),
                         TauA(lastOp'), TauB(lastOp'))) ]_vars

\* C28 (amended): with both tangents zero, the cubic-with-tangents value is
\* v0 + (3 tau^2 - 2 tau^3) (v1 - v0), which equals lerp(v0, v1, tau) exactly
\* when tau is 0, 1/2 or 1, or v0 = v1.
C28_ZeroTangentsSmoothstep ==
  [][ (Called("interpolate") /\ Result(lastOp').ok /\ T0(lastOp') < T1(lastOp')
         /\ ZeroTangents(lastOp', cubic)) =>
        LET a == TauA(lastOp')
            b == TauB(lastOp')
            v0 == V0(lastOp', cubic)
            v1 == V1(lastOp', cubic)
            r == Result(lastOp')
            s == 3 * a * a * b - 2 * a * a * a
        IN /\ r.den = b * b * b
           /\ r.num = VAdd(VScale(b * b * b - s, v0), VScale(s, v1))
           /\ (VScale(b, r.num) = VScale(r.den, LerpNum(v0, v1, a, b)))
                 <=> (a = 0 \/ 2 * a = b \/ a = b \/ v0 = v1) ]_vars

\* A query strictly inside the interval and off its middle, between different
\* values with zero tangents, has returned a value that is not the linear one.
C28_Witness ==
  /\ lastOp.op = "interpolate"
  /\ Result(lastOp).ok
  /\ T0(lastOp) < T1(lastOp)
  /\ ZeroTangents(lastOp, cubic)
  /\ 0 < TauA(lastOp) /\ TauA(lastOp) < TauB(lastOp) /\ 2 * TauA(lastOp) # TauB(lastOp)
  /\ V0(lastOp, cubic) # V1(lastOp, cubic)
  /\ VScale(TauB(lastOp), Result(lastOp).num) #
       VScale(Result(lastOp).den,
              LerpNum(V0(lastOp, cubic), V1(lastOp, cubic), TauA(lastOp), TauB(lastOp)))

\* The position channel of the object attributes holds exactly the keyframes
\* {0: [0,0,0], 10: [10,0,0]}.
Scenario(tl) ==
  /\ "position" \in DOMAIN tl.keyframes.attribs
  /\ DOMAIN tl.keyframes.attribs["position"] = {0, 10}
  /\ tl.keyframes.attribs["position"][0].value = <<0, 0, 0>>
  /\ tl.keyframes.attribs["position"][10].value = <<10, 0, 0>>
PositionClass(tl) ==
  IF "position" \in DOMAIN tl.interpolators.attribs
    THEN Some(tl.interpolators.attribs["position"].cls)
    ELSE None

\* C29: a channel gets the Linear interpolator when its first keyframe is
\* set and keeps its interpolator until set_interpolator replaces it; with
\* position keyframes {0: [0,0,0], 10: [10,0,0]} the Linear interpolator gives
\* get_position(0) = [0,0,0], get_position(5) = [5,0,0], get_position(10) =
\* [10,0,0], and after set_interpolator with Step get_position(5) = [0,0,0]
\* and get_position(10) = [10,0,0].
C29_DefaultLinearThenStep ==
  [][ /\ PositionClass(T'[Root]) # PositionClass(T[Root]) =>
            \/ /\ Called("set_keyframe") /\ PositionClass(T[Root]) = None
               /\ PositionClass(T'[Root]) = Some("LinearInterpolator")
            \/ /\ Called("set_interpolator") /\ PositionClass(T[Root]) # None
               /\ PositionClass(T'[Root]) = Some(lastOp'.arg[1].cls)
      /\ (Called("set_interpolator") /\ ~lastOp'.arg[1].is_camera
            /\ PositionClass(T[Root]) # None) =>
            PositionClass(T'[Root]) = Some(lastOp'.arg[1].cls)
      /\ (Called("get_position") /\ Scenario(T[Root])) =>
            LET t == QueryT(lastOp')
                r == Result(lastOp')
            IN /\ r.ok /\ ~Raised(ev')
               /\ PositionClass(T[Root]) = Some("LinearInterpolator") =>
                     RatEq(r, <<t, 0, 0>>)
               /\ PositionClass(T[Root]) = Some("StepInterpolator") =>
                     RatEq(r, IF t = 10 THEN <<10, 0, 0>> ELSE <<0, 0, 0>>) ]_vars

\* get_position(5) has been answered on the keyframes of the scenario with
\* the interpolator the channel got from set_keyframe.
C29_Witness ==
  /\ lastOp.op = "get_position"
  /\ QueryT(lastOp) = 5
  /\ Scenario(T[Root])
  /\ PositionClass(T[Root]) = Some("LinearInterpolator")
  /\ Result(lastOp).ok
  /\ RatEq(Result(lastOp), <<5, 0, 0>>)

\* C30: the Timeline is camera-animated exactly when a camera keyframe has
\* been set, and setting a keyframe in one namespace leaves the keyframes,
\* the interpolators and the interpolatability of every attribute in the
\* other namespace as they were.
C30_NamespacesIndependent ==
  [][ /\ T'[Root].is_camera_animated <=> DOMAIN T'[Root].keyframes.camera # {}
      /\ Called("set_keyframe") =>
            LET c == lastOp'.arg[1].is_camera
                a == lastOp'.arg[1].attrib
                this == IF c THEN "camera" ELSE "attribs"
                other == IF c THEN "attribs" ELSE "camera"
            IN /\ T'[Root].keyframes[other] = T[Root].keyframes[other]
               /\ T'[Root].interpolators[other] = T[Root].interpolators[other]
               /\ is_interpolatable(T'[Root], a, ~c) = is_interpolatable(T[Root], a, ~c)
               /\ a \in DOMAIN T'[Root].keyframes[this]
               /\ lastOp'.arg[1].t \in DOMAIN T'[Root].keyframes[this][a]
               /\ T'[Root].is_camera_animated = (T[Root].is_camera_animated \/ c) ]_vars

\* A camera position keyframe has been set on a Timeline whose object
\* position channel has keyframes of its own, which differ from the camera's.
C30_Witness ==
  /\ lastOp.op = "set_keyframe"
  /\ lastOp.arg[1].is_camera
  /\ T[Root].is_camera_animated
  /\ "position" \in DOMAIN T[Root].keyframes.attribs
  /\ "position" \in DOMAIN T[Root].keyframes.camera
  /\ T[Root].keyframes.attribs["position"] # T[Root].keyframes.camera["position"]
  /\ T[Root].interpolators.attribs["position"].cls = "StepInterpolator"
  /\ T[Root].interpolators.camera["position"].cls = "LinearInterpolator"

\* C31: an update (no explicit t) of a playing, looping Timeline whose clock
\* is past the final timestamp re-derives the start reference as the present
\* instant: the update raises nothing, the Timeline is still playing and
\* current_timestamp read at the same instant is 0.
C31_LoopRestartsClock ==
  [][ (Called("update") /\ Playing /\ T[Root].loop /\ Cur > Final) =>
        /\ ~Raised(ev')
        /\ T'[Root].playing
        /\ T'[Root].last_started_time = now'
        /\ Clock(T'[Root]) = 0
        /\ T'[Root].speed = T[Root].speed
        /\ T'[Root].final_timestamp = Final ]_vars

\* Such an update has happened at speed 2, one unit of animation time past a
\* non-zero final timestamp.
C31_Witness ==
  /\ lastOp.op = "update"
  /\ T[Root].loop /\ Playing
  /\ T[Root].speed = 2
  /\ Final > 0
  /\ T[Root].last_timestamp > Final
  /\ T[Root].last_started_time = now
  /\ Cur = 0

\* The interpolator of a channel, if it has one.
InterpolatorAt(tl, typ, attrib) ==
  IF attrib \in DOMAIN tl.interpolators[typ]
    THEN Some(tl.interpolators[typ][attrib])
    ELSE None

\* C32: set_keyframe on a channel that has an interpolator keeps that
\* interpolator (its strategy, its degree, the keyframe store it is bound to)
\* and re-runs its setup over the updated store, so that it knows every
\* timestamp of the store, the new one included; a following get_position at
\* the time of a keyframe returns the value of that keyframe.
C32_MutationRefreshesInterpolator ==
  [][ /\ (Called("set_keyframe")
            /\ InterpolatorAt(T[Root], Namespace(lastOp'.arg[1].is_camera),
                              lastOp'.arg[1].attrib) # None) =>
            LET typ == Namespace(lastOp'.arg[1].is_camera)
                a == lastOp'.arg[1].attrib
                old == T[Root].interpolators[typ][a]
                new == T'[Root].interpolators[typ][a]
            IN /\ new.cls = old.cls
               /\ new.degree = old.degree
               /\ new.keyframes = old.keyframes
               /\ new.timestamps = DOMAIN T'[Root].keyframes[typ][a]
               /\ lastOp'.arg[1].t \in new.timestamps
      /\ (Called("get_position")
            /\ "position" \in DOMAIN T[Root].keyframes.attribs
            /\ QueryT(lastOp') \in DOMAIN T[Root].keyframes.attribs["position"]) =>
            /\ Result(lastOp').ok
            /\ RatEq(Result(lastOp'),
                     T[Root].keyframes.attribs["position"][QueryT(lastOp')].value) ]_vars

\* The Step interpolator of a channel with two keyframes has answered a
\* query at the time of the last keyframe with the value of that keyframe,
\* which differs from the first keyframe's.
C32_Witness ==
  /\ lastOp.op = "get_position"
  /\ QueryT(lastOp) = 10
  /\ "position" \in DOMAIN T[Root].keyframes.attribs
  /\ DOMAIN T[Root].keyframes.attribs["position"] = {0, 10}
  /\ T[Root].interpolators.attribs["position"].cls = "StepInterpolator"
  /\ T[Root].keyframes.attribs["position"][0].value = <<0, 0, 0>>
  /\ RatEq(Result(lastOp), <<10, 0, 0>>)

\* C33: get_position (get_value) and get_camera_position (get_camera_value)
\* on a channel of their namespace that has no keyframe raise an error to the
\* caller, return no value and change nothing, whatever the channel of the
\* same name in the other namespace holds.
C33_QueryWithoutKeyframesRaises ==
  [][ /\ (Called("get_position")
            /\ "position" \notin DOMAIN T[Root].keyframes.attribs) =>
            /\ ~Result(lastOp').ok
            /\ ev' = <<[k |-> "raise", what |-> "AttributeError"]>>
            /\ T' = T
      /\ (Called("get_camera_position")
            /\ "position" \notin DOMAIN T[Root].keyframes.camera) =>
            /\ ~Result(lastOp').ok
            /\ ev' = <<[k |-> "raise", what |-> "AttributeError"]>>
            /\ T' = T ]_vars

\* get_position has raised on a Timeline that has camera position keyframes
\* and no object position keyframe.
C33_Witness ==
  /\ lastOp.op = "get_position"
  /\ "position" \notin DOMAIN T[Root].keyframes.attribs
  /\ "position" \in DOMAIN T[Root].keyframes.camera
  /\ ~Result(lastOp).ok
  /\ Raised(ev)

\* C34: in every reachable state exactly one of the predicates playing,
\* paused and stopped of the Timeline is true.
C34_PlaybackStatesExclusive ==
  /\ playing(T[Root]) \/ paused(T[Root]) \/ stopped(T[Root])
  /\ ~(playing(T[Root]) /\ paused(T[Root]))
  /\ ~(playing(T[Root]) /\ stopped(T[Root]))
  /\ ~(paused(T[Root]) /\ stopped(T[Root]))

\* The attribute names of a namespace whose channel holds a keyframe.
Populated(tl, typ) ==
  {a \in DOMAIN tl.keyframes[typ] : DOMAIN tl.keyframes[typ][a] # {}}

\* C35: in every state and in each namespace the attributes that have an
\* interpolator are those whose channel holds at least one keyframe, and
\* is_interpolatable answers accordingly.
C35_InterpolatorIffKeyframes ==
  \A i \in Timelines : \A c \in BOOLEAN :
     /\ DOMAIN T[i].interpolators[Namespace(c)] = Populated(T[i], Namespace(c))
     /\ \A a \in {"position", "scale"} :
           is_interpolatable(T[i], a, c) <=> a \in Populated(T[i], Namespace(c))

\* set_interpolator has been called for the camera position of a Timeline
\* that has object position keyframes only.
C35_Witness ==
  /\ lastOp.op = "set_interpolator"
  /\ lastOp.arg[1].is_camera
  /\ Populated(T[Root], "attribs") = {"position"}
  /\ Populated(T[Root], "camera") = {}
  /\ is_interpolatable(T[Root], "position", FALSE)
  /\ ~is_interpolatable(T[Root], "position", TRUE)

\* C36 (as stated): whenever the Timeline is not playing, its stored current
\* time lies in [0, final_timestamp].
C36_StoredTimeInRange ==
  ~T[Root].playing =>
     (0 <= T[Root].last_timestamp /\ T[Root].last_timestamp <= T[Root].final_timestamp)

StoredInRange(tl) ==
  ~tl.playing => (0 <= tl.last_timestamp /\ tl.last_timestamp <= tl.final_timestamp)
\* pause() while the clock is outside [0, final_timestamp], and
\* set_timestamp on a Timeline that is not playing with a time outside it.
PauseOutOfRange == Called("pause") /\ Playing /\ (Cur < 0 \/ Cur > Final)
SetTimestampOutOfRange ==
  /\ Called("set_timestamp") /\ ~Playing
  /\ (lastOp'.arg[1] < 0 \/ lastOp'.arg[1] > Final)

\* C36 (amended): the stored time of a Timeline that is not playing lies in
\* [0, final_timestamp] and every operation keeps it so, except pause() while
\* the clock is outside that range, which stores the clock's reading, and
\* set_timestamp with a time outside it, which stores the time it is given.
C36_StoredTimeInRangeExceptPauseSet ==
  [][ /\ (StoredInRange(T[Root]) /\ ~PauseOutOfRange /\ ~SetTimestampOutOfRange)
            => StoredInRange(T'[Root])
      /\ PauseOutOfRange =>
            ~T'[Root].playing /\ T'[Root].last_timestamp = Cur
      /\ SetTimestampOutOfRange =>
            ~T'[Root].playing /\ T'[Root].last_timestamp = lastOp'.arg[1] ]_vars

\* A Timeline that played past its final timestamp has been paused and keeps
\* the overrun time as its stored time.
C36_Witness ==
  /\ lastOp.op = "pause"
  /\ ~Playing
  /\ Final > 0
  /\ T[Root].last_timestamp > Final

\* The animation time an event of an update carries, if it carries one.
EventTime(e) ==
  IF e.k \in {"update", "panel_current_time"} THEN Some(e.t)
  ELSE IF e.k = "apply" THEN e.t
  ELSE None

\* C37: in an update without explicit t, every time at which attributes are
\* applied, that is reported to the playback panel or at which a pass over a
\* Timeline is made lies in [0, final_timestamp]; after an overrun it is the
\* corrected time (0 or the final timestamp), not the overrun time.
C37_UpdateUsesCorrectedTime ==
  [][ Called("update") =>
        \A n \in 1..Len(ev') :
           EventTime(ev'[n]) # None =>
              /\ 0 <= EventTime(ev'[n])[1]
              /\ EventTime(ev'[n])[1] <= T'[Root].final_timestamp ]_vars


\* C38: a forced update_animation call and update_final_timestamp on any
\* structure built with add_timeline end without an exception, and a forced
\* update starts at most one update pass on each Timeline.
C38_PassesTerminateOncePerTimeline ==
  [][ (Called("forced_update") \/ Called("update_final_timestamp"))
        => /\ ~Raised(ev')
           /\ \A i \in Timelines : Count(ev', "update", i) <= 1 ]_vars


\* C39: update_animation(t) with an explicit t on a Timeline that is not
\* playing, without force, applies no attribute and starts no update pass,
\* on itself or on a child; all it does is the scene transition of the
\* Timeline: added when t is in the window and the Timeline is not in the
\* scene, removed when t is outside and the Timeline is in the scene.
C39_IdleUpdateOnlyMovesSceneMembership ==
  [][ (Called("update_at") /\ ~Playing) =>
        LET t == lastOp'.arg[1]
            goes_in == T[Root].scene /\ InWindow(T[Root], t) /\ ~T[Root].added_to_scene
            goes_out == T[Root].scene /\ ~InWindow(T[Root], t) /\ T[Root].added_to_scene
        IN /\ \A n \in 1..Len(ev') : ev'[n].k \notin {"apply", "update"}
           /\ ev' = IF goes_in THEN <<[k |-> "add", tl |-> Root]>>
                    ELSE IF goes_out THEN <<[k |-> "remove", tl |-> Root]>>
                    ELSE <<>>
           /\ T' = [T EXCEPT ![Root].added_to_scene =
                               IF goes_in THEN TRUE
                               ELSE IF goes_out THEN FALSE ELSE @] ]_vars

\* An idle Root with a keyframe and a child that has keyframes was updated at
\* an explicit t and left the scene or came back into it.
C39_Witness ==
  /\ lastOp.op = "update_at"
  /\ ~Playing
  /\ T[Root].timelines = <<Child>>
  /\ "position" \in DOMAIN T[Root].keyframes.attribs
  /\ "position" \in DOMAIN T[Child].keyframes.attribs
  /\ Len(ev) = 1
  /\ ev[1].k \in {"add", "remove"}


\* The value current_timestamp of a playing Timeline has d seconds of wall
\* clock after the present instant.
ClockAfter(tl, d) ==
  (((now + d * Scale) - tl.last_started_time) * tl.speed) \div Scale

\* C40: play() on a Timeline that is already playing changes nothing: the
\* start reference, the speed and the playing flag stay as they are, no
\* update is forced, and the current time at every later instant of the
\* wall clock is what it would have been without the call.
C40_PlayWhilePlayingIsNoOp ==
  [][ (Called("play") /\ Playing) =>
        /\ T'[Root].last_started_time = T[Root].last_started_time
        /\ T'[Root].speed = T[Root].speed
        /\ Playing'
        /\ \A d \in 0..MaxNow : ClockAfter(T'[Root], d) = ClockAfter(T[Root], d)
        /\ T' = T
        /\ ev' = <<>> ]_vars

\* play() was called on a Timeline that was playing, with its clock past 0
\* and below the final timestamp.
C40_Witness ==
  /\ lastOp.op = "play"
  /\ lastOp.arg[1].playing
  /\ lastOp.arg[1].t0 > 0
  /\ lastOp.arg[1].t0 < lastOp.arg[1].final
  /\ Playing

====
